---- MODULE Spec2Model ----
(***************************************************************************)
(* A model of the CSV loader of src/import_csv_to_supabase.py: setup       *)
(* (get_supabase_client), file resolution (find_csv_file), the chunked     *)
(* and batched import with its per-row fallback (import_csv_to_table),     *)
(* the table loop and the summary of main, and the exit paths of the       *)
(* __main__ block; and of the cached query executor of the dashboard,     *)
(* src/app.py (execute_query).                                             *)
(*                                                                         *)
(* The remote store, the file system and the environment variables are     *)
(* the program's inputs: every action takes what it reads from them as a   *)
(* parameter, and the next-state relations quantify over the values.       *)
(* A data row of a file is identified by its position 1..nrows.            *)
(***************************************************************************)
EXTENDS Integers, Sequences, FiniteSets, TLC

(***************************************************************************)
(* Configuration (lines 31-89).                                            *)
(***************************************************************************)
BATCH_SIZE == 1000

\* ttl of st.cache_data on execute_query (src/app.py), in seconds.
TTL == 300

CHUNK_SIZE == 5000

\* A config without a 'fallback' key has fallback = <<>>.
CSV_FILES ==
  << [table |-> "leagues_temp", file |-> "leagues.csv", fallback |-> <<>>,
      columns |-> <<"leagueID", "name", "understatNotation">>],
     [table |-> "teams_temp", file |-> "teams.csv", fallback |-> <<>>,
      columns |-> <<"teamID", "name">>],
     [table |-> "players_temp", file |-> "players_utf8.csv",
      fallback |-> <<"players.csv">>,
      columns |-> <<"playerID", "name">>],
     [table |-> "games_temp", file |-> "games.csv", fallback |-> <<>>,
      columns |-> <<"gameID", "leagueID", "season", "date",
                    "homeTeamID", "awayTeamID", "homeGoals", "awayGoals",
                    "homeProbability", "drawProbability", "awayProbability",
                    "homeGoalsHalfTime", "awayGoalsHalfTime",
                    "B365H", "B365D", "B365A", "BWH", "BWD", "BWA",
                    "IWH", "IWD", "IWA", "PSH", "PSD", "PSA",
                    "WHH", "WHD", "WHA", "VCH", "VCD", "VCA",
                    "PSCH", "PSCD", "PSCA">>],
     [table |-> "team_stats_temp", file |-> "teamstats.csv", fallback |-> <<>>,
      columns |-> <<"gameID", "teamID", "season", "date", "location",
                    "goals", "xGoals", "shots", "shotsOnTarget", "deep",
                    "ppda", "fouls", "corners", "yellowCards", "redCards",
                    "result">>],
     [table |-> "appearances_temp", file |-> "appearances.csv",
      fallback |-> <<>>,
      columns |-> <<"gameID", "playerID", "goals", "ownGoals", "shots",
                    "xGoals", "xGoalsChain", "xGoalsBuildup", "assists",
                    "keyPasses", "xAssists", "position", "positionOrder",
                    "yellowCard", "redCard", "time", "substituteIn",
                    "substituteOut", "leagueID">>],
     [table |-> "shots_temp", file |-> "shots.csv", fallback |-> <<>>,
      columns |-> <<"gameID", "shooterID", "assisterID", "minute",
                    "situation", "lastAction", "shotType", "shotResult",
                    "xGoal", "positionX", "positionY">>] >>

(***************************************************************************)
(* Bounds of the model.                                                    *)
(***************************************************************************)
\* The loop of main is checked over the first MaxTables entries of CSV_FILES.
MaxTables == 3

\* A file holds at most MaxRows data rows.
MaxRows == 4

\* A chunk of the cleaning pipeline holds at most MaxCleanRows rows.
MaxLastRows == 1

\* The dashboard calls execute_query at most MaxQueries times, and the
\* database is written at most MaxWrites times meanwhile.
MaxQueries == 3

MaxWrites == 1

MaxCleanRows == 2

\* In the three-table scenario the file of table C holds 1..MaxScenarioRows
\* rows, or a full batch more.
MaxScenarioRows == 20

\* Chunk and batch sizes of the bounded runs (CHUNK_SIZE and BATCH_SIZE
\* themselves are used by the scenario of the three-table run).
MaxChunk == 3

MaxBatch == 2

\* The <<chunk size, batch size>> pairs of the bounded runs: a chunk size
\* that is no multiple of the batch size, and one that is.
SizePairs == { <<MaxChunk, MaxBatch>>, <<MaxChunk - 1, MaxBatch - 1>> }

Min(a, b) == IF a < b THEN a ELSE b

VARIABLES
  config,        \* the table mapping main iterates over (immutable)
  chunk_size,    \* CHUNK_SIZE of the run
  batch_size,    \* batch_size parameter of import_csv_to_table
  pc,            \* control position
  exit_status,   \* -1 while running, 0 after main returned, 1 after sys.exit(1)
  stop_cause,    \* why the process ended: "none", "credentials", "client", "interrupt"
  env,           \* what get_supabase_client read: [read, url, key, created]
  tbl,           \* position of main's for loop in config (1-based)
  seen,          \* what find_csv_file saw: [table, primary, fallback]
  csv_file,      \* result of find_csv_file: "None", "primary" or "fallback"
  told_fallback, \* "Using fallback file" was printed for this table
  results,       \* main's results dict, in insertion order
  total_rows,    \* import_csv_to_table's counter
  nrows,         \* data rows of the file being read
  has_columns,   \* the file holds at least one expected column
  row_pos,       \* data rows consumed by the chunk reader so far
  chunk_num,     \* chunks yielded so far
  chunk_start,   \* position before the first row of the current chunk
  chunk_len,     \* len(cleaned_records) of the current chunk
  i,             \* offset of the current batch in the chunk
  j,             \* offset of the current record in the batch (fallback loop)
  calls,         \* insert calls answered for the current table, with outcomes
  pending,       \* insert requests sent to the store and not yet answered
  printed,       \* progress lines import_csv_to_table printed for the table
  atomic,        \* the store persists nothing of a bulk insert it fails
  stored,        \* what the store persisted while the current table is imported
  persisted,     \* per handled table, what the store persisted for it
  outcome,       \* how the current table's handling ended
  summary,       \* the lines of the printed summary
  grand_total,   \* the printed TOTAL (-1 before the summary)
  success,       \* "Import completed successfully" was printed
  stage,         \* position of one chunk in the cleaning pipeline
  raw,           \* the chunk as text: [header, rows]
  chunk,         \* the DataFrame pd.read_csv yields for it
  cleaned,       \* what clean_dataframe returns: [raised, df]
  records,       \* chunk.to_dict('records')
  cleaned_records, \* the records after the loop of lines 341-355
  submitted,     \* the records passed to insert calls
  recleaned,     \* clean_dataframe applied to what clean_dataframe returned
  earlier,       \* how the columns of the file's previous chunk came out
  now,           \* the dashboard's clock, in seconds
  conn,          \* get_database_connection's cached connection: "none" or "open"
  db,            \* the version of the database's content
  cache,         \* st.cache_data's entries of execute_query, by (query, params)
  db_runs,       \* the queries pd.read_sql_query ran against the database
  last_call,     \* the latest call of execute_query and what it returned
  calls_made     \* calls of execute_query so far

vars == << config, chunk_size, batch_size, atomic, stored, persisted, pc, exit_status, stop_cause, env, tbl,
           seen, csv_file, told_fallback, results, total_rows, nrows, has_columns,
           row_pos, chunk_num, chunk_start, chunk_len, i, j, calls, pending, printed,
           outcome, summary, grand_total, success, stage, raw, chunk, cleaned, records,
           cleaned_records, submitted, recleaned, earlier, now, conn, db,
           cache, db_runs, last_call, calls_made >>

\* The dashboard (src/app.py).
cacheVars == << now, conn, db, cache, db_runs, last_call, calls_made >>

\* What the dashboard leaves alone: the loader and its cleaning pipeline.
loaderVarsOfDashboard ==
  << config, chunk_size, batch_size, atomic, stored, persisted, pc,
     exit_status, stop_cause, env, tbl, seen, csv_file, told_fallback,
     results, total_rows, nrows, has_columns, row_pos, chunk_num,
     chunk_start, chunk_len, i, j, calls, pending, printed, outcome, summary,
     grand_total, success, stage, raw, chunk, cleaned, records,
     cleaned_records, submitted, recleaned, earlier >>

cleanVars == << stage, raw, chunk, cleaned, records, cleaned_records,
                submitted, recleaned, earlier >>

\* What no step of the loader's control flow changes.
setupVars == << config, chunk_size, batch_size, atomic, cleanVars, cacheVars >>

\* The destination tables.
storeVars == << stored, persisted >>

exitVars == << exit_status, stop_cause, env >>

countVars == << total_rows, nrows, has_columns, row_pos, chunk_num,
                chunk_start, chunk_len, i, j, calls, pending >>

importVars == << countVars, printed >>

summaryVars == << summary, grand_total, success >>

(***************************************************************************)
(* A progress line of import_csv_to_table: "batch" is the line of line 364 *)
(* (batch number, rows, running total), "batch_error" that of line 366,    *)
(* "skipped" that of line 373, "completed" that of line 376 (total),       *)
(* "error" that of line 380 and "not_found" that of line 318.              *)
(***************************************************************************)
Line(kind, batch, rows, total) ==
  [kind |-> kind, batch |-> batch, rows |-> rows, total |-> total]

(***************************************************************************)
(* Python dict with insertion order, as a sequence of entries.             *)
(***************************************************************************)
DictKeys(d) == [k \in 1..Len(d) |-> d[k].table]

DictHas(d, key) == \E k \in 1..Len(d) : d[k].table = key

\* d[key] = value: an existing key keeps its place, a new key goes last.
DictSet(d, key, value) ==
  IF DictHas(d, key)
  THEN [k \in 1..Len(d) |->
          IF d[k].table = key THEN [table |-> key, count |-> value] ELSE d[k]]
  ELSE Append(d, [table |-> key, count |-> value])

DictGet(d, key) == d[CHOOSE k \in 1..Len(d) : d[k].table = key].count

RECURSIVE SumCounts(_)
SumCounts(d) == IF d = <<>> THEN 0 ELSE d[1].count + SumCounts(Tail(d))

(***************************************************************************)
(* get_supabase_client (lines 92-112).  url and key are what os.environ    *)
(* holds: "None" when unset, "" when set empty, "set" otherwise; created   *)
(* says whether create_client returned rather than raised.                 *)
(***************************************************************************)
EnvValues == {"None", "", "set"}

\* Python's `not value` for None and for a string.
Falsy(value) == value \in {"None", ""}

\* Mutant: one credential is enough.
get_supabase_client_either(url, key, created) ==
  IF Falsy(url) /\ Falsy(key) THEN "credentials"
  ELSE IF ~created THEN "client"
  ELSE "ok"

get_supabase_client(url, key, created) ==
  IF Falsy(url) \/ Falsy(key) THEN "credentials"
  ELSE IF ~created THEN "client"
  ELSE "ok"

\* Mutant: the fallback is looked at before the primary.
find_csv_file_fallback_first(cfg, primary_exists, fallback_exists) ==
  IF cfg.fallback # <<>> /\ fallback_exists
  THEN [path |-> "fallback", told |-> TRUE]
  ELSE IF primary_exists THEN [path |-> "primary", told |-> FALSE]
  ELSE [path |-> "None", told |-> FALSE]

\* Mutant: the primary path is returned without the last existence check.
find_csv_file_unchecked(cfg, primary_exists, fallback_exists) ==
  IF primary_exists THEN [path |-> "primary", told |-> FALSE]
  ELSE IF cfg.fallback # <<>> /\ fallback_exists
       THEN [path |-> "fallback", told |-> TRUE]
       ELSE [path |-> "primary", told |-> FALSE]

(***************************************************************************)
(* find_csv_file (lines 254-266): the path chosen, and whether the         *)
(* "Using fallback file" line is printed.                                  *)
(***************************************************************************)
find_csv_file(cfg, primary_exists, fallback_exists) ==
  IF primary_exists THEN [path |-> "primary", told |-> FALSE]
  ELSE IF cfg.fallback # <<>> /\ fallback_exists
       THEN [path |-> "fallback", told |-> TRUE]
       ELSE [path |-> "None", told |-> FALSE]

(***************************************************************************)
(* The state after construction: nothing has run.                          *)
(***************************************************************************)
\* The (query, params) inputs execute_query is called with: one query
\* with two parameter tuples, and another query without parameters.
Inputs ==
  { << "standings", "(1, 2023)" >>, << "standings", "(2, 2023)" >>,
    << "leagues", "None" >> }

NoEntry == [at |-> -1, result |-> "none"]

\* The dashboard has not run: no connection, an empty cache.
NoQueries ==
  /\ now = 0
  /\ conn = "none"
  /\ db = 0
  /\ cache = [input \in Inputs |-> NoEntry]
  /\ db_runs = <<>>
  /\ last_call = <<>>
  /\ calls_made = 0

Idle ==
  /\ NoQueries
  /\ pc = "start"
  /\ exit_status = -1
  /\ stop_cause = "none"
  /\ env = [read |-> FALSE, url |-> "None", key |-> "None", created |-> FALSE]
  /\ tbl = 1
  /\ seen = [table |-> "", primary |-> FALSE, fallback |-> FALSE]
  /\ csv_file = "None"
  /\ told_fallback = FALSE
  /\ results = <<>>
  /\ total_rows = 0
  /\ nrows = 0
  /\ has_columns = TRUE
  /\ row_pos = 0
  /\ chunk_num = 0
  /\ chunk_start = 0
  /\ chunk_len = 0
  /\ i = 0
  /\ j = 0
  /\ calls = <<>>
  /\ pending = <<>>
  /\ printed = <<>>
  /\ stored = <<>>
  /\ persisted = <<>>
  /\ outcome = "none"
  /\ summary = <<>>
  /\ grand_total = -1
  /\ success = FALSE

\* The cleaning pipeline holds no chunk.
NoChunk ==
  /\ stage = "none"
  /\ raw = [header |-> <<>>, rows |-> <<>>]
  /\ chunk = <<>>
  /\ cleaned = <<>>
  /\ records = <<>>
  /\ cleaned_records = <<>>
  /\ submitted = <<>>
  /\ recleaned = <<>>
  /\ earlier = [seen |-> FALSE, kind |-> <<>>]

Init ==
  /\ NoChunk
  /\ atomic = TRUE
  /\ config = SubSeq(CSV_FILES, 1, Min(MaxTables, Len(CSV_FILES)))
  /\ \E sizes \in SizePairs :
       /\ chunk_size = sizes[1]
       /\ batch_size = sizes[2]
  /\ Idle

(***************************************************************************)
(* main, lines 392-404: setup.  A failure ends the process in sys.exit(1)  *)
(* inside get_supabase_client.                                             *)
(***************************************************************************)
Setup(url, key, created) ==
  /\ pc = "start"
  /\ LET r == get_supabase_client(url, key, created) IN
       IF r = "ok"
       THEN /\ pc' = "loop"
            /\ UNCHANGED << exit_status, stop_cause >>
       ELSE /\ pc' = "exit"
            /\ exit_status' = 1
            /\ stop_cause' = r
  /\ env' = [read |-> TRUE, url |-> url, key |-> key, created |-> created]
  /\ results' = <<>>
  /\ UNCHANGED << setupVars, tbl, seen, csv_file, told_fallback, importVars,
                  outcome, summaryVars, storeVars >>

(***************************************************************************)
(* The end of one table's handling in main's loop (lines 416 and 422):     *)
(* the count is stored in results and the loop moves to the next table.    *)
(***************************************************************************)
\* The table_name import_csv_to_table was called with (line 416): the
\* table every insert of lines 362 and 370 is addressed to.
table_name_first == config[1].table

table_name == config[tbl].table

\* A record the store persisted: the table the insert call addressed and
\* the row of the file the record was made from.
Written(row) == [table |-> table_name, row |-> row]

\* What the store persisted while a table was imported: the records that
\* went to that table, the distinct source rows among them, and the
\* records that went to another table.
Tally(table, rows) ==
  LET own == { k \in 1..Len(rows) : rows[k].table = table } IN
    [table |-> table, rows |-> Cardinality(own),
     distinct |-> Cardinality({ rows[k].row : k \in own }),
     others |-> Len(rows) - Cardinality(own)]

Finish(count, how) ==
  /\ results' = DictSet(results, config[tbl].table, count)
  /\ outcome' = how
  /\ tbl' = tbl + 1
  /\ pc' = "loop"
  /\ persisted' = Append(persisted, Tally(config[tbl].table, stored))
  /\ stored' = <<>>

(***************************************************************************)
(* main, lines 406-422: resolve the file of the next table; call           *)
(* import_csv_to_table when there is one, else record 0.                   *)
(***************************************************************************)
Resolve(primary_exists, fallback_exists) ==
  /\ pc = "loop"
  /\ tbl <= Len(config)
  /\ LET found == find_csv_file(config[tbl], primary_exists, fallback_exists) IN
       /\ seen' = [table |-> config[tbl].table, primary |-> primary_exists,
                   fallback |-> fallback_exists]
       /\ csv_file' = found.path
       /\ told_fallback' = found.told
       /\ total_rows' = 0
       /\ nrows' = 0
       /\ has_columns' = TRUE
       /\ row_pos' = 0
       /\ chunk_num' = 0
       /\ chunk_start' = 0
       /\ chunk_len' = 0
       /\ i' = 0
       /\ j' = 0
       /\ calls' = <<>>
       /\ pending' = <<>>
       /\ printed' = <<>>
       /\ IF found.path # "None"
          THEN /\ pc' = "import"
               /\ outcome' = "none"
               /\ UNCHANGED << tbl, results, storeVars >>
          ELSE Finish(0, "skipped")
  /\ UNCHANGED << setupVars, exitVars, summaryVars >>

(***************************************************************************)
(* import_csv_to_table, lines 315-331: the second existence check and the  *)
(* opening of the reader.  still_exists is csv_path.exists() now; opened   *)
(* says whether pd.read_csv returned a reader rather than raised; n is the *)
(* number of data rows of the file and expected says whether its header    *)
(* holds at least one of the table's expected columns.                     *)
(***************************************************************************)
\* Mutant: a file that is gone at the second existence check ends the run.
OpenCsv_missing_is_fatal(still_exists, opened, n, expected) ==
  /\ pc = "import"
  /\ IF ~still_exists
     THEN /\ outcome' = "not_found"
          /\ pc' = "exit"
          /\ exit_status' = 1
          /\ stop_cause' = "exception"
          /\ printed' = Append(printed, Line("not_found", 0, 0, 0))
          /\ UNCHANGED << env, tbl, results, countVars, storeVars >>
     ELSE IF ~opened
     THEN /\ Finish(total_rows, "error")
          /\ printed' = Append(printed, Line("error", 0, 0, total_rows))
          /\ nrows' = n
          /\ has_columns' = expected
          /\ UNCHANGED << exitVars, total_rows, row_pos, chunk_num,
                          chunk_start, chunk_len, i, j, calls, pending >>
     ELSE /\ nrows' = n
          /\ has_columns' = expected
          /\ pc' = "read"
          /\ UNCHANGED << exitVars, tbl, results, outcome, total_rows,
                          row_pos, chunk_num, chunk_start, chunk_len, i, j,
                          calls, pending, printed, storeVars >>
  /\ UNCHANGED << setupVars, seen, csv_file, told_fallback, summaryVars >>

OpenCsv(still_exists, opened, n, expected) ==
  /\ pc = "import"
  /\ IF ~still_exists
     THEN /\ Finish(0, "not_found")
          /\ printed' = Append(printed, Line("not_found", 0, 0, 0))
          /\ UNCHANGED countVars
     ELSE IF ~opened
     THEN /\ Finish(total_rows, "error")
          /\ printed' = Append(printed, Line("error", 0, 0, total_rows))
          /\ nrows' = n
          /\ has_columns' = expected
          /\ UNCHANGED << total_rows, row_pos, chunk_num, chunk_start,
                          chunk_len, i, j, calls, pending >>
     ELSE /\ nrows' = n
          /\ has_columns' = expected
          /\ pc' = "read"
          /\ UNCHANGED << tbl, results, outcome, total_rows, row_pos,
                          chunk_num, chunk_start, chunk_len, i, j, calls,
                          pending, printed, storeVars >>
  /\ UNCHANGED << setupVars, exitVars, seen, csv_file,
                  told_fallback, summaryVars >>

(***************************************************************************)
(* An insert is one blocking call, .insert(...).execute() (lines 362 and   *)
(* 370): the request goes to the store and the program waits in the call   *)
(* until the store answers or the call raises.  At pc = "batch" the        *)
(* program waits in the bulk insert of the current batch, at pc = "rows"   *)
(* in the individual insert of the current record.                         *)
(***************************************************************************)
Request(kind, from, len) ==
  [table |-> table_name, kind |-> kind, from |-> from, len |-> len]

\* The request sent by a step that runs into an insert call, if it does.
Issued ==
  IF pc' = "batch"
  THEN << Request("bulk", chunk_start' + i' + 1,
                  Min(batch_size, chunk_len' - i')) >>
  ELSE IF pc' = "rows"
  THEN << Request("row", chunk_start' + i' + j' + 1, 1) >>
  ELSE << >>

\* len(cleaned_records) for a chunk of `rows` rows (lines 335-355): one
\* record per row, but none when the cleaned chunk has no column, because
\* to_dict('records') builds the records by zipping the columns.
RecordsOf(rows) == IF has_columns THEN rows ELSE 0

\* Mutant: an exception of the chunk loop is not caught and reaches __main__.
NextChunk_uncaught(read_ok) ==
  /\ pc = "read"
  /\ IF ~read_ok
     THEN /\ pc' = "exit"
          /\ exit_status' = 1
          /\ stop_cause' = "exception"
          /\ UNCHANGED << env, tbl, results, outcome, importVars, storeVars >>
     ELSE IF row_pos = nrows /\ chunk_num > 0
     THEN /\ Finish(total_rows, "completed")
          /\ printed' = Append(printed, Line("completed", 0, 0, total_rows))
          /\ UNCHANGED << exitVars, countVars >>
     ELSE /\ chunk_start' = row_pos
          /\ chunk_len' = RecordsOf(Min(chunk_size, nrows - row_pos))
          /\ row_pos' = row_pos + Min(chunk_size, nrows - row_pos)
          /\ chunk_num' = chunk_num + 1
          /\ i' = 0
          /\ pc' = IF chunk_len' > 0 THEN "batch" ELSE "read"
          /\ pending' = pending \o Issued
          /\ UNCHANGED << exitVars, tbl, results, outcome, total_rows, nrows,
                          has_columns, j, calls, printed, storeVars >>
  /\ UNCHANGED << setupVars, seen, csv_file, told_fallback, summaryVars >>

\* Mutant: the except branch returns 0, not the rows inserted so far.
NextChunk_returns_zero(read_ok) ==
  /\ pc = "read"
  /\ IF ~read_ok
     THEN /\ Finish(0, "error")
          /\ printed' = Append(printed, Line("error", 0, 0, total_rows))
          /\ UNCHANGED countVars
     ELSE IF row_pos = nrows /\ chunk_num > 0
     THEN /\ Finish(total_rows, "completed")
          /\ printed' = Append(printed, Line("completed", 0, 0, total_rows))
          /\ UNCHANGED countVars
     ELSE /\ chunk_start' = row_pos
          /\ chunk_len' = RecordsOf(Min(chunk_size, nrows - row_pos))
          /\ row_pos' = row_pos + Min(chunk_size, nrows - row_pos)
          /\ chunk_num' = chunk_num + 1
          /\ i' = 0
          /\ pc' = IF chunk_len' > 0 THEN "batch" ELSE "read"
          /\ pending' = pending \o Issued
          /\ UNCHANGED << tbl, results, outcome, total_rows, nrows,
                          has_columns, j, calls, printed, storeVars >>
  /\ UNCHANGED << setupVars, exitVars, seen, csv_file,
                  told_fallback, summaryVars >>

\* Mutant: chunksize is not passed, the reader yields the file as one chunk.
NextChunk_whole_file(read_ok) ==
  /\ pc = "read"
  /\ IF ~read_ok
     THEN /\ Finish(total_rows, "error")
          /\ printed' = Append(printed, Line("error", 0, 0, total_rows))
          /\ UNCHANGED countVars
     ELSE IF row_pos = nrows /\ chunk_num > 0
     THEN /\ Finish(total_rows, "completed")
          /\ printed' = Append(printed, Line("completed", 0, 0, total_rows))
          /\ UNCHANGED countVars
     ELSE /\ chunk_start' = row_pos
          /\ chunk_len' = RecordsOf(nrows - row_pos)
          /\ row_pos' = nrows
          /\ chunk_num' = chunk_num + 1
          /\ i' = 0
          /\ pc' = IF chunk_len' > 0 THEN "batch" ELSE "read"
          /\ pending' = pending \o Issued
          /\ UNCHANGED << tbl, results, outcome, total_rows, nrows,
                          has_columns, j, calls, printed, storeVars >>
  /\ UNCHANGED << setupVars, exitVars, seen, csv_file,
                  told_fallback, summaryVars >>

\* Mutant: after an exception the table is left without an entry in results.
NextChunk_no_entry(read_ok) ==
  /\ pc = "read"
  /\ IF ~read_ok
     THEN /\ outcome' = "error"
          /\ tbl' = tbl + 1
          /\ pc' = "loop"
          /\ UNCHANGED << results, importVars, storeVars >>
     ELSE IF row_pos = nrows /\ chunk_num > 0
     THEN /\ Finish(total_rows, "completed")
          /\ printed' = Append(printed, Line("completed", 0, 0, total_rows))
          /\ UNCHANGED countVars
     ELSE /\ chunk_start' = row_pos
          /\ chunk_len' = RecordsOf(Min(chunk_size, nrows - row_pos))
          /\ row_pos' = row_pos + Min(chunk_size, nrows - row_pos)
          /\ chunk_num' = chunk_num + 1
          /\ i' = 0
          /\ pc' = IF chunk_len' > 0 THEN "batch" ELSE "read"
          /\ pending' = pending \o Issued
          /\ UNCHANGED << tbl, results, outcome, total_rows, nrows,
                          has_columns, j, calls, printed, storeVars >>
  /\ UNCHANGED << setupVars, exitVars, seen, csv_file,
                  told_fallback, summaryVars >>

(***************************************************************************)
(* import_csv_to_table, lines 333-355 and 376-383: the next chunk is read, *)
(* cleaned and turned into records.  read_ok is FALSE when any of that     *)
(* raises.  The reader yields one (possibly empty) first chunk, then       *)
(* chunks of up to chunk_size rows until the rows are used up.             *)
(***************************************************************************)
NextChunk(read_ok) ==
  /\ pc = "read"
  /\ IF ~read_ok
     THEN /\ Finish(total_rows, "error")
          /\ printed' = Append(printed, Line("error", 0, 0, total_rows))
          /\ UNCHANGED countVars
     ELSE IF row_pos = nrows /\ chunk_num > 0
     THEN /\ Finish(total_rows, "completed")
          /\ printed' = Append(printed, Line("completed", 0, 0, total_rows))
          /\ UNCHANGED countVars
     ELSE /\ chunk_start' = row_pos
          /\ chunk_len' = RecordsOf(Min(chunk_size, nrows - row_pos))
          /\ row_pos' = row_pos + Min(chunk_size, nrows - row_pos)
          /\ chunk_num' = chunk_num + 1
          /\ i' = 0
          /\ pc' = IF chunk_len' > 0 THEN "batch" ELSE "read"
          /\ pending' = pending \o Issued
          /\ UNCHANGED << tbl, results, outcome, total_rows, nrows,
                          has_columns, j, calls, printed, storeVars >>
  /\ UNCHANGED << setupVars, exitVars, seen, csv_file,
                  told_fallback, summaryVars >>

(***************************************************************************)
(* The batch cleaned_records[i:i + batch_size] (line 359), as the position *)
(* of its first row in the file and its length.                            *)
(***************************************************************************)
BatchFrom == chunk_start + i + 1

\* Mutant: the slice is not cut at the end of the chunk.
BatchLen_uncut == batch_size

BatchLen == Min(batch_size, chunk_len - i)

\* i//batch_size + 1, the number the batch is reported under.
BatchNumber == (i \div batch_size) + 1

\* One insert call, what the store answered, and total_rows after it.
Call(kind, from, len, ok, total) ==
  [table |-> table_name, kind |-> kind, from |-> from, len |-> len,
   ok |-> ok, total |-> total]

\* Mutant: the loop bound is one short, a last batch of one record is lost.
AdvanceBatch_short ==
  /\ i' = i + batch_size
  /\ pc' = IF i + batch_size + 1 < chunk_len THEN "batch" ELSE "read"

\* Mutant: the loop bound is inclusive, a chunk that ends with a full batch
\* is followed by an empty one.
AdvanceBatch_inclusive ==
  /\ i' = i + batch_size
  /\ pc' = IF i + batch_size <= chunk_len THEN "batch" ELSE "read"

\* range(0, len(cleaned_records), batch_size): the step after a batch.
AdvanceBatch ==
  /\ i' = i + batch_size
  /\ pc' = IF i + batch_size < chunk_len THEN "batch" ELSE "read"

\* How many records of the batch, from its first, the store can have
\* persisted when it answers a bulk insert: all of them when it accepts it,
\* none when it fails it atomically, any number otherwise.
CanApply(ok) ==
  IF ok THEN {BatchLen}
  ELSE IF atomic THEN {0}
  ELSE 0..BatchLen

\* Mutant: a successful batch is counted as batch_size rows, not len(batch).
BulkInsert_counts_batch_size(ok, applied) ==
  /\ pc = "batch"
  /\ applied \in CanApply(ok)
  /\ IF ok
     THEN /\ total_rows' = total_rows + batch_size
          /\ AdvanceBatch
          /\ UNCHANGED j
     ELSE /\ pc' = "rows"
          /\ j' = 0
          /\ UNCHANGED << total_rows, i >>
  /\ calls' = Append(calls, Call("bulk", BatchFrom, BatchLen, ok, total_rows'))
  /\ stored' = stored \o [m \in 1..applied |-> Written(BatchFrom + m - 1)]
  /\ printed' = Append(printed, Line(IF ok THEN "batch" ELSE "batch_error",
                                     BatchNumber, BatchLen, total_rows'))
  /\ UNCHANGED << setupVars, exitVars, tbl, seen, csv_file,
                  told_fallback, results, nrows, has_columns, row_pos,
                  chunk_num, chunk_start, chunk_len, outcome, summaryVars,
                  persisted >>
  /\ pending' = Tail(pending) \o Issued

\* Mutant: the records of a batch go through the per-row loop after a
\* successful bulk insert too.
BulkInsert_fallback_always(ok, applied) ==
  /\ pc = "batch"
  /\ applied \in CanApply(ok)
  /\ total_rows' = IF ok THEN total_rows + BatchLen ELSE total_rows
  /\ pc' = "rows"
  /\ j' = 0
  /\ UNCHANGED i
  /\ calls' = Append(calls, Call("bulk", BatchFrom, BatchLen, ok, total_rows'))
  /\ stored' = stored \o [m \in 1..applied |-> Written(BatchFrom + m - 1)]
  /\ printed' = Append(printed, Line(IF ok THEN "batch" ELSE "batch_error",
                                     BatchNumber, BatchLen, total_rows'))
  /\ UNCHANGED << setupVars, exitVars, tbl, seen, csv_file,
                  told_fallback, results, nrows, has_columns, row_pos,
                  chunk_num, chunk_start, chunk_len, outcome, summaryVars,
                  persisted >>
  /\ pending' = Tail(pending) \o Issued

\* Mutant: the bulk insert is sent without waiting for the store's answer.
BulkInsert_no_wait(ok, applied) ==
  /\ pc = "batch"
  /\ applied \in CanApply(ok)
  /\ IF ok
     THEN /\ total_rows' = total_rows + BatchLen
          /\ AdvanceBatch
          /\ UNCHANGED j
     ELSE /\ pc' = "rows"
          /\ j' = 0
          /\ UNCHANGED << total_rows, i >>
  /\ calls' = Append(calls, Call("bulk", BatchFrom, BatchLen, ok, total_rows'))
  /\ stored' = stored \o [m \in 1..applied |-> Written(BatchFrom + m - 1)]
  /\ printed' = Append(printed, Line(IF ok THEN "batch" ELSE "batch_error",
                                     BatchNumber, BatchLen, total_rows'))
  /\ UNCHANGED << setupVars, exitVars, tbl, seen, csv_file,
                  told_fallback, results, nrows, has_columns, row_pos,
                  chunk_num, chunk_start, chunk_len, outcome, summaryVars,
                  persisted >>
  /\ pending' = pending \o Issued

(***************************************************************************)
(* Lines 361-366: the bulk insert of a batch.                              *)
(***************************************************************************)
BulkInsert(ok, applied) ==
  /\ pc = "batch"
  /\ applied \in CanApply(ok)
  /\ IF ok
     THEN /\ total_rows' = total_rows + BatchLen
          /\ AdvanceBatch
          /\ UNCHANGED j
     ELSE /\ pc' = "rows"
          /\ j' = 0
          /\ UNCHANGED << total_rows, i >>
  /\ calls' = Append(calls, Call("bulk", BatchFrom, BatchLen, ok, total_rows'))
  /\ stored' = stored \o [m \in 1..applied |-> Written(BatchFrom + m - 1)]
  /\ printed' = Append(printed, Line(IF ok THEN "batch" ELSE "batch_error",
                                     BatchNumber, BatchLen, total_rows'))
  /\ UNCHANGED << setupVars, exitVars, tbl, seen, csv_file,
                  told_fallback, results, nrows, has_columns, row_pos,
                  chunk_num, chunk_start, chunk_len, outcome, summaryVars,
                  persisted >>
  /\ pending' = Tail(pending) \o Issued

\* Mutant: a failed row ends the fallback loop (break instead of continue).
RowInsert_break(ok) ==
  /\ pc = "rows"
  /\ total_rows' = IF ok THEN total_rows + 1 ELSE total_rows
  /\ calls' = Append(calls, Call("row", BatchFrom + j, 1, ok, total_rows'))
  /\ stored' = IF ok THEN Append(stored, Written(BatchFrom + j)) ELSE stored
  /\ printed' = IF ok THEN printed
                ELSE Append(printed, Line("skipped", BatchNumber, 1, total_rows'))
  /\ IF ok /\ j + 1 < BatchLen
     THEN /\ j' = j + 1
          /\ UNCHANGED << pc, i >>
     ELSE /\ j' = 0
          /\ AdvanceBatch
  /\ UNCHANGED << setupVars, exitVars, tbl, seen, csv_file,
                  told_fallback, results, nrows, has_columns, row_pos,
                  chunk_num, chunk_start, chunk_len, outcome, summaryVars,
                  persisted >>
  /\ pending' = Tail(pending) \o Issued

\* Mutant: a skipped row is counted as imported.
RowInsert_count_skipped(ok) ==
  /\ pc = "rows"
  /\ total_rows' = total_rows + 1
  /\ calls' = Append(calls, Call("row", BatchFrom + j, 1, ok, total_rows'))
  /\ stored' = IF ok THEN Append(stored, Written(BatchFrom + j)) ELSE stored
  /\ printed' = IF ok THEN printed
                ELSE Append(printed, Line("skipped", BatchNumber, 1, total_rows'))
  /\ IF j + 1 < BatchLen
     THEN /\ j' = j + 1
          /\ UNCHANGED << pc, i >>
     ELSE /\ j' = 0
          /\ AdvanceBatch
  /\ UNCHANGED << setupVars, exitVars, tbl, seen, csv_file,
                  told_fallback, results, nrows, has_columns, row_pos,
                  chunk_num, chunk_start, chunk_len, outcome, summaryVars,
                  persisted >>
  /\ pending' = Tail(pending) \o Issued

\* Mutant: a record whose individual insert failed is tried a second time.
RowInsert_retry(ok) ==
  /\ pc = "rows"
  /\ total_rows' = IF ok THEN total_rows + 1 ELSE total_rows
  /\ calls' = Append(calls, Call("row", BatchFrom + j, 1, ok, total_rows'))
  /\ stored' = IF ok THEN Append(stored, Written(BatchFrom + j)) ELSE stored
  /\ printed' = IF ok THEN printed
                ELSE Append(printed, Line("skipped", BatchNumber, 1, total_rows'))
  /\ IF ~ok /\ calls[Len(calls)].kind = "bulk"
     THEN UNCHANGED << pc, i, j >>
     ELSE IF j + 1 < BatchLen
     THEN /\ j' = j + 1
          /\ UNCHANGED << pc, i >>
     ELSE /\ j' = 0
          /\ AdvanceBatch
  /\ UNCHANGED << setupVars, exitVars, tbl, seen, csv_file,
                  told_fallback, results, nrows, has_columns, row_pos,
                  chunk_num, chunk_start, chunk_len, outcome, summaryVars,
                  persisted >>
  /\ pending' = Tail(pending) \o Issued

\* Mutant: a record inserted by the fallback is not counted.
RowInsert_uncounted(ok) ==
  /\ pc = "rows"
  /\ total_rows' = total_rows
  /\ calls' = Append(calls, Call("row", BatchFrom + j, 1, ok, total_rows'))
  /\ stored' = IF ok THEN Append(stored, Written(BatchFrom + j)) ELSE stored
  /\ printed' = IF ok THEN printed
                ELSE Append(printed, Line("skipped", BatchNumber, 1, total_rows'))
  /\ IF j + 1 < BatchLen
     THEN /\ j' = j + 1
          /\ UNCHANGED << pc, i >>
     ELSE /\ j' = 0
          /\ AdvanceBatch
  /\ UNCHANGED << setupVars, exitVars, tbl, seen, csv_file,
                  told_fallback, results, nrows, has_columns, row_pos,
                  chunk_num, chunk_start, chunk_len, outcome, summaryVars,
                  persisted >>
  /\ pending' = Tail(pending) \o Issued

(***************************************************************************)
(* Lines 368-374: the per-row fallback, one record per step.               *)
(***************************************************************************)
RowInsert(ok) ==
  /\ pc = "rows"
  /\ total_rows' = IF ok THEN total_rows + 1 ELSE total_rows
  /\ calls' = Append(calls, Call("row", BatchFrom + j, 1, ok, total_rows'))
  /\ stored' = IF ok THEN Append(stored, Written(BatchFrom + j)) ELSE stored
  /\ printed' = IF ok THEN printed
                ELSE Append(printed, Line("skipped", BatchNumber, 1, total_rows'))
  /\ IF j + 1 < BatchLen
     THEN /\ j' = j + 1
          /\ UNCHANGED << pc, i >>
     ELSE /\ j' = 0
          /\ AdvanceBatch
  /\ UNCHANGED << setupVars, exitVars, tbl, seen, csv_file,
                  told_fallback, results, nrows, has_columns, row_pos,
                  chunk_num, chunk_start, chunk_len, outcome, summaryVars,
                  persisted >>
  /\ pending' = Tail(pending) \o Issued

(***************************************************************************)
(* main, lines 424-450: the summary, after the loop has handled every      *)
(* table; main then returns.                                               *)
(***************************************************************************)
SummaryLine(entry) ==
  [table |-> entry.table, count |-> entry.count, mark |-> entry.count > 0]

\* Mutant: the total is assigned, not accumulated (= instead of +=).
Summary_total_assigned ==
  /\ pc = "loop"
  /\ tbl > Len(config)
  /\ summary' = [k \in 1..Len(results) |-> SummaryLine(results[k])]
  /\ grand_total' = IF results = <<>> THEN 0 ELSE results[Len(results)].count
  /\ success' = (grand_total' > 0)
  /\ pc' = "done"
  /\ exit_status' = 0
  /\ UNCHANGED << setupVars, stop_cause, env, tbl, seen, csv_file,
                  told_fallback, results, importVars, outcome, storeVars >>

\* Mutant: a run that imported nothing ends with sys.exit(1).
Summary_fails_on_empty ==
  /\ pc = "loop"
  /\ tbl > Len(config)
  /\ summary' = [k \in 1..Len(results) |-> SummaryLine(results[k])]
  /\ grand_total' = SumCounts(results)
  /\ success' = (SumCounts(results) > 0)
  /\ pc' = IF SumCounts(results) > 0 THEN "done" ELSE "exit"
  /\ exit_status' = IF SumCounts(results) > 0 THEN 0 ELSE 1
  /\ stop_cause' = IF SumCounts(results) > 0 THEN stop_cause ELSE "no_data"
  /\ UNCHANGED << setupVars, env, tbl, seen, csv_file,
                  told_fallback, results, importVars, outcome, storeVars >>

Summary ==
  /\ pc = "loop"
  /\ tbl > Len(config)
  /\ summary' = [k \in 1..Len(results) |-> SummaryLine(results[k])]
  /\ grand_total' = SumCounts(results)
  /\ success' = (SumCounts(results) > 0)
  /\ pc' = "done"
  /\ exit_status' = 0
  /\ UNCHANGED << setupVars, stop_cause, env, tbl, seen, csv_file,
                  told_fallback, results, importVars, outcome, storeVars >>

(***************************************************************************)
(* __main__, lines 453-458: a KeyboardInterrupt at any point of main ends  *)
(* the process with status 1.                                              *)
(***************************************************************************)
Interrupt ==
  /\ pc \notin {"exit", "done"}
  /\ pc' = "exit"
  /\ exit_status' = 1
  /\ stop_cause' = "interrupt"
  /\ UNCHANGED << setupVars, env, tbl, seen, csv_file, told_fallback, results,
                  importVars, outcome, summaryVars, storeVars >>

(***************************************************************************)
(* The program's own steps, over everything its environment can answer.    *)
(***************************************************************************)
HasFallback(cfg) == cfg.fallback # <<>>

\* What the file system can answer for the fallback path: only a table
\* that configures one has a fallback file to find.
FallbackAnswers ==
  IF pc = "loop" /\ tbl <= Len(config) /\ HasFallback(config[tbl])
  THEN BOOLEAN
  ELSE {FALSE}

Run ==
  \/ \E url \in EnvValues, key \in EnvValues, created \in BOOLEAN :
       Setup(url, key, created)
  \/ \E p \in BOOLEAN, f \in FallbackAnswers : Resolve(p, f)
  \/ \E e \in BOOLEAN, o \in BOOLEAN, n \in 0..MaxRows, x \in BOOLEAN :
       OpenCsv(e, o, n, x)
  \/ \E r \in BOOLEAN : NextChunk(r)
  \/ \E ok \in BOOLEAN : \E n \in CanApply(ok) : BulkInsert(ok, n)
  \/ \E ok \in BOOLEAN : RowInsert(ok)
  \/ Summary

Next == Run \/ Interrupt

Spec == Init /\ [][Next]_vars

(***************************************************************************)
(* The run against a store of either kind: one that fails a bulk insert    *)
(* atomically, and one that can have persisted some records of a batch     *)
(* when it fails it.  The run is over the first two tables of CSV_FILES.   *)
(***************************************************************************)
StoreConfig == << CSV_FILES[1], CSV_FILES[2] >>

StoreInit ==
  /\ NoChunk
  /\ atomic \in BOOLEAN
  /\ config = StoreConfig
  /\ \E sizes \in SizePairs :
       /\ chunk_size = sizes[1]
       /\ batch_size = sizes[2]
  /\ Idle

StoreSpec == StoreInit /\ [][Next]_vars

(***************************************************************************)
(* The run without a user interrupt.  The program is sequential and every  *)
(* call it makes returns or raises, so its next step is always taken.      *)
(***************************************************************************)
LiveSpec == Init /\ [][Run]_vars /\ WF_vars(Run)

(***************************************************************************)
(* The cleaning pipeline of one chunk (lines 325-359): pd.read_csv types   *)
(* the text of the chunk, clean_dataframe projects and converts it,        *)
(* to_dict('records') turns it into records, the loop of lines 341-355     *)
(* cleans the records, and the batches pass them to insert.                *)
(*                                                                         *)
(* A value is None, an int, a float, a bool or a str.  A float is written  *)
(* as the text it was parsed from; "nan", "inf" and "-inf" are the         *)
(* non-finite floats.                                                      *)
(***************************************************************************)
None == [t |-> "None", v |-> ""]

IntVal(v) == [t |-> "int", v |-> v]

FloatVal(v) == [t |-> "float", v |-> v]

StrVal(v) == [t |-> "str", v |-> v]

BoolVal(v) == [t |-> "bool", v |-> v]

NaN == FloatVal("nan")

Range(seq) == { seq[k] : k \in 1..Len(seq) }

\* The cell texts of the bounded chunks, by what a numeric parser makes of
\* them.
IntTokens == {"7"}

FloatTokens == {"1.5"}

InfTokens == {"inf", "-inf"}

TextTokens == {"abc"}

\* true_values of pd.read_csv.
BoolTokens == {"True"}

\* na_values of line 330, which pd.read_csv adds to its default list.
NaValues == {"NA", "", "NULL", "null"}

PandasDefaultNaValues == {"", "#N/A", "N/A", "NA", "NULL", "NaN", "None",
                          "n/a", "nan", "null", "<NA>"}

IsNaToken(tok) == tok \in NaValues \cup PandasDefaultNaValues

IsNumericToken(tok) == tok \in IntTokens \cup FloatTokens \cup InfTokens

Tokens == {"", "NULL"} \cup IntTokens \cup FloatTokens \cup InfTokens
          \cup TextTokens \cup BoolTokens

\* The cells of a column are all true or false values, or missing.
IsBoolColumn(cells) ==
  /\ \E k \in 1..Len(cells) : cells[k] \in BoolTokens
  /\ \A k \in 1..Len(cells) : cells[k] \in BoolTokens \/ IsNaToken(cells[k])

\* pd.read_csv's dtype of a column from its cell texts (low_memory=False:
\* one decision per column and chunk): int64, else float64, else bool, else
\* object; a column of true and false values with a missing one is an
\* object column of bools and NaN.
InferDtype(cells) ==
  LET present == { k \in 1..Len(cells) : ~IsNaToken(cells[k]) } IN
    IF Len(cells) = 0 THEN "object"
    ELSE IF \A k \in present : cells[k] \in IntTokens
    THEN (IF present = 1..Len(cells) THEN "int64" ELSE "float64")
    ELSE IF \A k \in present : IsNumericToken(cells[k]) THEN "float64"
    ELSE IF IsBoolColumn(cells) /\ present = 1..Len(cells) THEN "bool"
    ELSE "object"

ParseCell(dtype, bools, tok) ==
  IF dtype = "int64" THEN IntVal(tok)
  ELSE IF IsNaToken(tok) THEN NaN
  ELSE IF dtype = "float64" THEN FloatVal(tok)
  ELSE IF bools THEN BoolVal(tok)
  ELSE StrVal(tok)

\* A DataFrame: its column names in order, its row count, and per column a
\* dtype and the values.
read_csv(text) ==
  [columns |-> text.header,
   n |-> Len(text.rows),
   col |-> [c \in Range(text.header) |->
             LET cells == [r \in 1..Len(text.rows) |-> text.rows[r][c]]
                 dtype == InferDtype(cells)
             IN [dtype |-> dtype,
                 values |-> [r \in 1..Len(cells) |->
                              ParseCell(dtype, IsBoolColumn(cells), cells[r])]]]]

IsNull(x) == x = None \/ x = NaN

\* Mutant: every expected column is selected, present in the file or not.
AvailableColumns_all(df, columns) == columns

\* Line 272.
AvailableColumns(df, columns) ==
  SelectSeq(columns, LAMBDA c : c \in Range(df.columns))

\* df.replace(old, None) for a str old (lines 276-277).
ReplaceStr(column, old) ==
  [column EXCEPT !.values =
     [r \in 1..Len(column.values) |->
        IF column.values[r] = StrVal(old) THEN None ELSE column.values[r]]]

\* pd.to_numeric of an object column (line 284): it raises when a str does
\* not parse, else it returns the numeric column.
CanParse(x) == x.t # "str" \/ IsNumericToken(x.v)

AsNumber(x) ==
  IF IsNull(x) THEN NaN
  ELSE IF x.t = "str"
       THEN (IF x.v \in IntTokens THEN IntVal(x.v) ELSE FloatVal(x.v))
       ELSE x

\* A number as a float64; True is 1.0.
AsFloat(x) == IF x.t = "bool" THEN FloatVal("1.0") ELSE FloatVal(x.v)

\* Mutant: errors='coerce', a str that does not parse becomes NaN.
to_numeric_coerce(column) ==
  [raised |-> FALSE, dtype |-> "float64",
   values |-> [r \in 1..Len(column.values) |->
                IF CanParse(column.values[r])
                THEN AsFloat(AsNumber(column.values[r])) ELSE NaN]]

to_numeric(column) ==
  IF \E r \in 1..Len(column.values) : ~CanParse(column.values[r])
  THEN [raised |-> TRUE, dtype |-> column.dtype, values |-> column.values]
  ELSE LET nums == [r \in 1..Len(column.values) |-> AsNumber(column.values[r])]
       IN IF \A r \in 1..Len(nums) : nums[r].t = "int"
          THEN [raised |-> FALSE, dtype |-> "int64", values |-> nums]
          ELSE IF \A r \in 1..Len(nums) : nums[r].t = "bool"
          THEN [raised |-> FALSE, dtype |-> "bool", values |-> nums]
          ELSE [raised |-> FALSE, dtype |-> "float64",
                values |-> [r \in 1..Len(nums) |-> AsFloat(nums[r])]]

\* Mutant: pd.to_numeric(errors='coerce'), a str that does not parse
\* becomes NaN and the column is numeric.
ConvertColumn_coerce(column) ==
  IF column.dtype # "object" THEN column
  ELSE LET numeric_series ==
             [r \in 1..Len(column.values) |->
                IF CanParse(column.values[r])
                THEN AsFloat(AsNumber(column.values[r])) ELSE NaN]
       IN IF \A r \in 1..Len(numeric_series) : numeric_series[r] = NaN
          THEN column
          ELSE [dtype |-> "float64", values |-> numeric_series]

\* Lines 280-290, for one column.
ConvertColumn(column) ==
  IF column.dtype # "object" THEN column
  ELSE LET numeric_series == to_numeric(column) IN
         IF numeric_series.raised THEN column
         ELSE IF \A r \in 1..Len(numeric_series.values) :
                   numeric_series.values[r] = NaN
         THEN column
         ELSE [dtype |-> numeric_series.dtype,
               values |-> numeric_series.values]

\* Mutant: NaN becomes the empty string.
ReplaceNaN_empty_string(column) ==
  IF \E r \in 1..Len(column.values) : column.values[r] = NaN
  THEN [dtype |-> "object",
        values |-> [r \in 1..Len(column.values) |->
                     IF column.values[r] = NaN THEN StrVal("")
                     ELSE column.values[r]]]
  ELSE column

\* Line 294: NaN becomes None; a float64 column that held a NaN becomes an
\* object column.
ReplaceNaN(column) ==
  IF \E r \in 1..Len(column.values) : column.values[r] = NaN
  THEN [dtype |-> "object",
        values |-> [r \in 1..Len(column.values) |->
                     IF column.values[r] = NaN THEN None ELSE column.values[r]]]
  ELSE column

\* Line 297: df.where(pd.notnull(df), None); a float64 column cannot hold
\* None, there a null stays NaN.
WhereNotNull(column) ==
  IF column.dtype = "object"
  THEN [column EXCEPT !.values =
          [r \in 1..Len(column.values) |->
             IF IsNull(column.values[r]) THEN None ELSE column.values[r]]]
  ELSE column

\* Mutant: the final pass runs before the columns are converted.
clean_dataframe_final_pass_first(df, columns) ==
  LET available_columns == AvailableColumns(df, columns) IN
    IF \E k \in 1..Len(available_columns) :
         available_columns[k] \notin Range(df.columns)
    THEN [raised |-> TRUE, df |-> df]
    ELSE [raised |-> FALSE,
          df |-> [columns |-> available_columns,
                  n |-> df.n,
                  col |-> [c \in Range(available_columns) |->
                            ConvertColumn(WhereNotNull(ReplaceNaN(
                              ReplaceStr(ReplaceStr(df.col[c], "NA"), ""))))]]]

\* clean_dataframe (lines 269-299): [raised, df].  df[available_columns]
\* raises KeyError for a name that is no column of df.
clean_dataframe(df, columns) ==
  LET available_columns == AvailableColumns(df, columns) IN
    IF \E k \in 1..Len(available_columns) :
         available_columns[k] \notin Range(df.columns)
    THEN [raised |-> TRUE, df |-> df]
    ELSE [raised |-> FALSE,
          df |-> [columns |-> available_columns,
                  n |-> df.n,
                  col |-> [c \in Range(available_columns) |->
                            WhereNotNull(ReplaceNaN(ConvertColumn(
                              ReplaceStr(ReplaceStr(df.col[c], "NA"), ""))))]]]

\* DataFrame.to_dict('records'): one dict per row, built by zipping the
\* columns, so a frame without columns yields no record at all.
to_dict_records(df) ==
  IF df.columns = <<>> THEN <<>>
  ELSE [r \in 1..df.n |-> [c \in Range(df.columns) |-> df.col[c].values[r]]]

IsNonFinite(x) == x.t = "float" /\ x.v \in {"nan", "inf", "-inf"}

\* Mutant: only NaN is looked for, an infinity is passed on.
CleanValue_nan_only(value) ==
  IF value = None THEN None
  ELSE IF value.t = "float"
       THEN (IF value.v = "nan" THEN None ELSE value)
       ELSE value

\* Lines 344-354, for one value.
CleanValue(value) ==
  IF value = None THEN None
  ELSE IF value.t = "float"
       THEN (IF IsNonFinite(value) THEN None ELSE value)
       ELSE value

\* Lines 341-355.
CleanRecords(recs) ==
  [r \in 1..Len(recs) |-> [key \in DOMAIN recs[r] |-> CleanValue(recs[r][key])]]

(***************************************************************************)
(* The chunks the pipeline is run on: a header drawn from the expected     *)
(* columns of teams_temp and one column the table does not expect, and up  *)
(* to MaxCleanRows rows whose cells of expected columns range over Tokens. *)
(* The text of the chunk is drawn line by line before it is read.  A file  *)
(* whose first chunk is full can hold a second, last chunk.                *)
(***************************************************************************)
CleanTable == CSV_FILES[2]

Headers ==
  { <<"extra">>, <<"name">>, <<"teamID">>, <<"extra", "name">>,
    <<"teamID", "extra">>, <<"name", "extra", "teamID">> }

\* The cells of a row: any token in the first expected column, a missing
\* value, a decimal, an infinity or text in the second, text in the column
\* the table does not expect.
CellTokens(c) ==
  IF c = CleanTable.columns[1] THEN Tokens
  ELSE IF c \in Range(CleanTable.columns)
  THEN {""} \cup FloatTokens \cup {"-inf"} \cup TextTokens
  ELSE TextTokens

\* A chunk holds CHUNK_SIZE rows, here MaxCleanRows, unless it is the last
\* one of the file; the chunk after a full one holds up to MaxLastRows.
MaxChunkRows == IF earlier.seen THEN MaxLastRows ELSE MaxCleanRows

\* The lines the file can hold next; none once the chunk has been read.
RowsChoice ==
  IF stage = "text" /\ Len(raw.rows) < MaxChunkRows
  THEN { row \in [Range(raw.header) -> Tokens] :
           \A c \in Range(raw.header) : row[c] \in CellTokens(c) }
  ELSE {}


CleanInit ==
  /\ config = << CleanTable >>
  /\ atomic = TRUE
  /\ chunk_size = CHUNK_SIZE
  /\ batch_size = BATCH_SIZE
  /\ Idle
  /\ stage = "text"
  /\ raw \in { [header |-> h, rows |-> <<>>] : h \in Headers }
  /\ chunk = <<>>
  /\ cleaned = <<>>
  /\ records = <<>>
  /\ cleaned_records = <<>>
  /\ submitted = <<>>
  /\ recleaned = <<>>
  /\ earlier = [seen |-> FALSE, kind |-> <<>>]

loaderVars == << config, chunk_size, batch_size, atomic, cacheVars, storeVars, pc, exitVars, tbl, seen,
                 csv_file, told_fallback, results, importVars, outcome,
                 summaryVars >>

\* The file holds one more line.
AddRow(row) ==
  /\ stage = "text"
  /\ Len(raw.rows) < MaxChunkRows
  /\ raw' = [raw EXCEPT !.rows = Append(@, row)]
  /\ UNCHANGED << loaderVars, earlier, stage, chunk, cleaned, records, cleaned_records,
                  submitted, recleaned >>

\* Line 333: the reader yields the chunk.
ReadChunk ==
  /\ stage = "text"
  /\ earlier.seen => Len(raw.rows) > 0
  /\ chunk' = read_csv(raw)
  /\ stage' = "chunk"
  /\ UNCHANGED << loaderVars, earlier, raw, cleaned, records, cleaned_records, submitted,
                  recleaned >>

\* Line 335.  An exception ends the file (lines 379-383).
CleanChunk ==
  /\ stage = "chunk"
  /\ cleaned' = clean_dataframe(chunk, config[1].columns)
  /\ stage' = IF cleaned'.raised THEN "raised" ELSE "cleaned"
  /\ UNCHANGED << loaderVars, earlier, raw, chunk, records, cleaned_records, submitted,
                  recleaned >>

\* Line 338.
ToRecords ==
  /\ stage = "cleaned"
  /\ records' = to_dict_records(cleaned.df)
  /\ stage' = "records"
  /\ UNCHANGED << loaderVars, earlier, raw, chunk, cleaned, cleaned_records, submitted,
                  recleaned >>

\* Lines 341-355.
CleanUp ==
  /\ stage = "records"
  /\ cleaned_records' = CleanRecords(records)
  /\ stage' = "cleaned_records"
  /\ UNCHANGED << loaderVars, earlier, raw, chunk, cleaned, records, submitted,
                  recleaned >>

\* Lines 358-370: every record goes to an insert call, in a batch and, when
\* the batch fails, alone.
SubmitRecords ==
  /\ stage = "cleaned_records"
  /\ submitted' = cleaned_records
  /\ stage' = "submitted"
  /\ UNCHANGED << loaderVars, earlier, raw, chunk, cleaned, records, cleaned_records,
                  recleaned >>

\* clean_dataframe run once more, on the frame it returned for the chunk.
CleanAgain ==
  /\ stage = "submitted"
  /\ recleaned' = clean_dataframe(cleaned.df, config[1].columns)
  /\ stage' = "recleaned"
  /\ UNCHANGED << loaderVars, earlier, raw, chunk, cleaned, records, cleaned_records,
                  submitted >>

\* What a cleaned column holds: text when a value is a str, else numbers,
\* else true and false values, else nothing but None.
Kind(column) ==
  LET held == { column.values[r].t : r \in 1..Len(column.values) } IN
    IF "str" \in held THEN "text"
    ELSE IF held \cap {"int", "float"} # {} THEN "numeric"
    ELSE IF "bool" \in held THEN "bool"
    ELSE "empty"

\* Line 333: the chunk was a full one and the file holds more rows; the
\* for loop goes on with the next chunk of the same file.
NextFileChunk ==
  /\ stage = "submitted"
  /\ ~earlier.seen
  /\ Len(raw.rows) = MaxCleanRows
  /\ earlier' = [seen |-> TRUE,
                 kind |-> [c \in Range(cleaned.df.columns) |->
                            Kind(cleaned.df.col[c])]]
  /\ raw' = [raw EXCEPT !.rows = <<>>]
  /\ stage' = "text"
  /\ chunk' = <<>>
  /\ cleaned' = <<>>
  /\ records' = <<>>
  /\ cleaned_records' = <<>>
  /\ submitted' = <<>>
  /\ UNCHANGED << loaderVars, recleaned >>

CleanNext ==
  \/ NextFileChunk
  \/ \E row \in RowsChoice : AddRow(row)
  \/ ReadChunk
  \/ CleanChunk
  \/ ToRecords
  \/ CleanUp
  \/ SubmitRecords
  \/ CleanAgain

CleanSpec == CleanInit /\ [][CleanNext]_vars

(***************************************************************************)
(* The dashboard's query executor (src/app.py, lines 196-228).             *)
(* execute_query is wrapped by st.cache_data(ttl=300): a call whose        *)
(* (query, params) has an entry stored less than TTL seconds ago returns   *)
(* the stored value and the function body does not run; otherwise the body *)
(* runs and what it returns is stored with the time of the call.  An       *)
(* exception that leaves the body stores nothing.                          *)
(***************************************************************************)
\* The time that can pass between two calls.
Waits == {0, TTL - 1, TTL}

\* pd.read_sql_query's answer (line 224): the rows the query selects from
\* the database as it is now.
read_sql_query(query, params) ==
  [query |-> query, params |-> params, version |-> db]

\* pd.DataFrame() of line 228.
EmptyFrame == [query |-> "", params |-> "", version |-> -1]

\* No value: st.stop() ended the script run inside the call.
Stopped == [query |-> "", params |-> "", version |-> -2]

\* st.cache_data's lookup: the entry of the input has not expired.
Fresh(input, time) ==
  cache[input].at >= 0 /\ time < cache[input].at + TTL

Answer(input, time, result, ran) ==
  [input |-> input, at |-> time, result |-> result, ran |-> ran]

\* Mutant: the function is not cached, every call runs its body.
execute_query_uncached(query, params, elapsed, connects, ok) ==
  LET input == << query, params >>
      time == now + elapsed
  IN /\ calls_made < MaxQueries
     /\ calls_made' = calls_made + 1
     /\ now' = time
     /\ IF conn = "none" /\ ~connects
        THEN /\ last_call' = Answer(input, time, Stopped, FALSE)
             /\ UNCHANGED << conn, cache, db_runs >>
        ELSE LET df == IF ok THEN read_sql_query(query, params)
                       ELSE EmptyFrame
             IN /\ conn' = "open"
                /\ db_runs' = Append(db_runs,
                                     [input |-> input, at |-> time, result |-> df])
                /\ cache' = [cache EXCEPT ![input] = [at |-> time, result |-> df]]
                /\ last_call' = Answer(input, time, df, TRUE)
     /\ UNCHANGED << db, loaderVarsOfDashboard >>

\* execute_query (lines 216-228) behind st.cache_data.  elapsed is the time
\* since the previous call, connects says whether psycopg2.connect succeeds
\* when no connection is cached (else st.stop() ends the script run, lines
\* 209-212), ok whether pd.read_sql_query returns rather than raises.
execute_query(query, params, elapsed, connects, ok) ==
  LET input == << query, params >>
      time == now + elapsed
  IN /\ calls_made < MaxQueries
     /\ calls_made' = calls_made + 1
     /\ now' = time
     /\ IF Fresh(input, time)
        THEN /\ last_call' = Answer(input, time, cache[input].result, FALSE)
             /\ UNCHANGED << conn, cache, db_runs >>
        ELSE IF conn = "none" /\ ~connects
        THEN /\ last_call' = Answer(input, time, Stopped, FALSE)
             /\ UNCHANGED << conn, cache, db_runs >>
        ELSE LET df == IF ok THEN read_sql_query(query, params)
                       ELSE EmptyFrame
             IN /\ conn' = "open"
                /\ db_runs' = Append(db_runs,
                                     [input |-> input, at |-> time, result |-> df])
                /\ cache' = [cache EXCEPT ![input] = [at |-> time, result |-> df]]
                /\ last_call' = Answer(input, time, df, TRUE)
     /\ UNCHANGED << db, loaderVarsOfDashboard >>

\* Another client writes to the database.
DbWrite ==
  /\ db < MaxWrites
  /\ db' = db + 1
  /\ UNCHANGED << now, conn, cache, db_runs, last_call, calls_made,
                  loaderVarsOfDashboard >>

CacheInit ==
  /\ NoChunk
  /\ atomic = TRUE
  /\ config = << >>
  /\ chunk_size = CHUNK_SIZE
  /\ batch_size = BATCH_SIZE
  /\ Idle

CacheNext ==
  \/ \E input \in Inputs, elapsed \in Waits, connects \in BOOLEAN,
        ok \in BOOLEAN :
       execute_query(input[1], input[2], elapsed, connects, ok)
  \/ DbWrite

CacheSpec == CacheInit /\ [][CacheNext]_vars

(***************************************************************************)
(* The three-table scenario, run with CHUNK_SIZE and BATCH_SIZE as         *)
(* configured: the file of table A is missing, the file of table B holds   *)
(* 2500 rows the store accepts, and the store fails every insert, bulk or  *)
(* individual, for table C.                                                *)
(***************************************************************************)
ScenarioConfig ==
  << [table |-> "A", file |-> "a.csv", fallback |-> <<>>, columns |-> <<"id">>],
     [table |-> "B", file |-> "b.csv", fallback |-> <<>>, columns |-> <<"id">>],
     [table |-> "C", file |-> "c.csv", fallback |-> <<>>, columns |-> <<"id">>] >>

ScenarioInit ==
  /\ NoChunk
  /\ atomic = TRUE
  /\ config = ScenarioConfig
  /\ chunk_size = CHUNK_SIZE
  /\ batch_size = BATCH_SIZE
  /\ Idle

ScenarioTable == IF tbl <= Len(config) THEN config[tbl].table ELSE ""

ScenarioRows ==
  IF ScenarioTable = "B"
  THEN {2500}
  ELSE (1..MaxScenarioRows) \cup {BATCH_SIZE + MaxScenarioRows}

ScenarioRun ==
  \/ Setup("set", "set", TRUE)
  \/ Resolve(ScenarioTable # "A", FALSE)
  \/ \E n \in ScenarioRows : OpenCsv(TRUE, TRUE, n, TRUE)
  \/ NextChunk(TRUE)
  \/ \E n \in CanApply(ScenarioTable = "B") :
       BulkInsert(ScenarioTable = "B", n)
  \/ RowInsert(ScenarioTable = "B")
  \/ Summary

ScenarioSpec == ScenarioInit /\ [][ScenarioRun]_vars

(***************************************************************************)
(* Vocabulary of the properties.                                           *)
(***************************************************************************)
RECURSIVE SumLen(_)
SumLen(cs) == IF cs = <<>> THEN 0 ELSE cs[1].len + SumLen(Tail(cs))

IsBulk(c) == c.kind = "bulk"

BulkCalls == SelectSeq(calls, IsBulk)

\* Rows handed to bulk inserts for the current table.
Attempted == SumLen(BulkCalls)

\* The bulk inserts so far carry rows 1..n of the file, in file order.
Covers(n) ==
  /\ SumLen(BulkCalls) = n
  /\ \A k \in 1..Len(BulkCalls) :
       BulkCalls[k].from = 1 + SumLen(SubSeq(BulkCalls, 1, k - 1))

FailedBulk(k) == calls[k].kind = "bulk" /\ ~calls[k].ok

\* The calls after failed bulk insert k are its records, one each, in order.
FallbackInOrder(k) ==
  \A m \in 1..calls[k].len :
    k + m <= Len(calls) =>
      /\ calls[k + m].kind = "row"
      /\ calls[k + m].table = calls[k].table
      /\ calls[k + m].from = calls[k].from + m - 1

FallbackComplete(k) == k + calls[k].len <= Len(calls)

RowFailures(k) == Cardinality({m \in 1..calls[k].len : ~calls[k + m].ok})

TotalBefore(k) == IF k = 1 THEN 0 ELSE calls[k - 1].total

Interrupted == pc = "exit" /\ stop_cause = "interrupt"

ConfigOf(name) == config[CHOOSE k \in 1..Len(config) : config[k].table = name]

TableIndex(name) == CHOOSE k \in 1..Len(config) : config[k].table = name

\* import_csv_to_table has returned for the table in seen.
ImportEnded == outcome \in {"completed", "error", "not_found"}

SetupFailed == env.read /\ (Falsy(env.url) \/ Falsy(env.key) \/ ~env.created)

(***************************************************************************)
(* C1: after a failed bulk insert every record of the batch is submitted   *)
(* individually, in batch order, whatever the individual inserts answer;   *)
(* the handling of the batch is left only when all of them were submitted; *)
(* and whenever a chunk is finished, and when the file is, every record of *)
(* the rows read so far has been submitted, in file order: a file read to  *)
(* its end has had all its records submitted.                              *)
(***************************************************************************)
C1_FallbackSubmitsEveryRecord ==
  /\ \A k \in 1..Len(calls) :
       FailedBulk(k) =>
         /\ FallbackInOrder(k)
         /\ FallbackComplete(k) \/ pc = "rows" \/ Interrupted
  /\ (has_columns /\ (pc = "read" \/ outcome \in {"completed", "error"})) =>
       Covers(row_pos)
  /\ outcome = "completed" => row_pos = nrows

\* A first record failed alone, the second was submitted after it, a later
\* batch of the chunk and a later chunk followed, and the file completed.
C1_Witness ==
  /\ outcome = "completed"
  /\ chunk_num >= 2
  /\ Len(calls) >= 5
  /\ FailedBulk(1) /\ calls[1].len = 2
  /\ ~calls[2].ok
  /\ calls[3].kind = "row"
  /\ calls[4].kind = "bulk"

(***************************************************************************)
(* C2: a batch of n records whose bulk insert failed and of whose          *)
(* individual inserts exactly one failed raises the table's count by       *)
(* exactly n - 1, total_rows is the count after the last call, and the     *)
(* import is not stopped by it.                                            *)
(***************************************************************************)
C2_OneRejectedRow ==
  /\ total_rows = (IF calls = <<>> THEN 0 ELSE calls[Len(calls)].total)
  /\ \A k \in 1..Len(calls) :
       (FailedBulk(k) /\ FallbackComplete(k) /\ RowFailures(k) = 1) =>
         /\ calls[k + calls[k].len].total - TotalBefore(k) = calls[k].len - 1
         /\ k + calls[k].len = Len(calls) =>
              \/ pc \in {"batch", "read", "loop", "done"}
              \/ Interrupted

\* Such a batch of two, followed by another batch, in a file that completed
\* while tables remain to be handled.
C2_Witness ==
  /\ outcome = "completed"
  /\ pc = "loop" /\ tbl <= Len(config)
  /\ Len(calls) >= 4
  /\ FailedBulk(1) /\ calls[1].len = 2 /\ RowFailures(1) = 1
  /\ calls[3].total = 1
  /\ calls[4].kind = "bulk"

(***************************************************************************)
(* C3, as stated: when import_csv_to_table has read a file, the rows it    *)
(* attempted are the data rows of the file, and the count it returned is   *)
(* at most that number.                                                    *)
(***************************************************************************)
C3_AttemptedEqualsDataRows ==
  outcome \in {"completed", "error"} =>
    /\ Attempted = nrows
    /\ DictGet(results, seen.table) <= nrows

(***************************************************************************)
(* C3, amended: the rows attempted never exceed the data rows of the file  *)
(* and equal them when the file holds an expected column and is read to    *)
(* its end without an exception; the count is at most the rows attempted,  *)
(* and it is the count returned.                                           *)
(***************************************************************************)
C3_AttemptedAtMostDataRows ==
  /\ Attempted <= nrows
  /\ total_rows <= Attempted
  /\ (outcome = "completed" /\ has_columns) => Attempted = nrows
  /\ ImportEnded => DictGet(results, seen.table) = total_rows

\* A file of MaxRows rows read to its end, with a row skipped.
C3_Witness ==
  /\ outcome = "completed"
  /\ nrows = MaxRows
  /\ Attempted = MaxRows
  /\ DictGet(results, seen.table) = MaxRows - 1

(***************************************************************************)
(* C4: no record passed to an insert call holds a NaN or an infinity, and  *)
(* wherever the chunk read from the file held one, the submitted record    *)
(* holds None.                                                             *)
(***************************************************************************)
C4_NoNonFiniteSubmitted ==
  \A r \in 1..Len(submitted) :
    \A key \in DOMAIN submitted[r] :
      /\ ~IsNonFinite(submitted[r][key])
      /\ IsNonFinite(chunk.col[key].values[r]) => submitted[r][key] = None

\* A column read as <<inf, NaN>> and one read as <<1.5, -inf>>: the three
\* non-finite values were submitted as None, the 1.5 as it was.
C4_Witness ==
  /\ stage = "submitted"
  /\ Len(submitted) = 2
  /\ DOMAIN submitted[1] = {"teamID", "name"}
  /\ chunk.col["teamID"].values = << FloatVal("inf"), NaN >>
  /\ chunk.col["name"].values = << FloatVal("1.5"), FloatVal("-inf") >>
  /\ submitted[1]["teamID"] = None /\ submitted[2]["teamID"] = None
  /\ submitted[1]["name"] = FloatVal("1.5") /\ submitted[2]["name"] = None

(***************************************************************************)
(* C5: the keys of every submitted record are exactly the expected columns *)
(* of the table that the file holds; cleaning raises for no header, and a  *)
(* file that holds an expected column gives one record per row.            *)
(***************************************************************************)
ExpectedInFile ==
  { c \in Range(config[1].columns) : c \in Range(raw.header) }

C5_RecordKeys ==
  /\ stage # "raised"
  /\ \A r \in 1..Len(submitted) : DOMAIN submitted[r] = ExpectedInFile
  /\ (stage = "submitted" /\ ExpectedInFile # {}) =>
       Len(submitted) = Len(raw.rows)

\* A file with a column the table does not expect and without the expected
\* column name: its two rows were submitted with the key teamID alone.
C5_Witness ==
  /\ stage = "submitted"
  /\ raw.header = << "teamID", "extra" >>
  /\ Len(submitted) = 2
  /\ DOMAIN submitted[1] = {"teamID"}
  /\ DOMAIN submitted[2] = {"teamID"}

(***************************************************************************)
(* C6: find_csv_file returns the primary path whenever the primary exists, *)
(* else the fallback path when one is configured and exists, and then the  *)
(* fallback is reported; else no file.                                     *)
(***************************************************************************)
C6_FileResolution ==
  seen.table # "" =>
    LET fallback_there == HasFallback(ConfigOf(seen.table)) /\ seen.fallback IN
      /\ seen.primary => csv_file = "primary" /\ ~told_fallback
      /\ (~seen.primary /\ fallback_there) =>
           csv_file = "fallback" /\ told_fallback
      /\ (~seen.primary /\ ~fallback_there) =>
           csv_file = "None" /\ ~told_fallback

\* The fallback of players_temp was used, reported, and imported.
C6_Witness ==
  /\ seen.table = "players_temp"
  /\ ~seen.primary /\ seen.fallback
  /\ csv_file = "fallback" /\ told_fallback
  /\ outcome = "completed" /\ total_rows > 0

(***************************************************************************)
(* C7: a table whose primary and fallback files are both absent gets a     *)
(* count of zero, no insert is issued for it, and main's loop has moved to *)
(* the next table without an error.                                        *)
(***************************************************************************)
BothAbsent ==
  /\ seen.table # ""
  /\ ~seen.primary
  /\ ~(HasFallback(ConfigOf(seen.table)) /\ seen.fallback)

C7_MissingFileIsSkipped ==
  BothAbsent =>
    /\ DictHas(results, seen.table)
    /\ DictGet(results, seen.table) = 0
    /\ calls = <<>>
    /\ outcome = "skipped"
    /\ tbl = TableIndex(seen.table) + 1
    /\ pc \in {"loop", "done"} \/ Interrupted

\* The second table was skipped after the first imported rows, and the loop
\* stands before the third.
C7_Witness ==
  /\ BothAbsent
  /\ Len(config) >= 3
  /\ seen.table = config[2].table
  /\ pc = "loop" /\ tbl = 3
  /\ results[1].count > 0
  /\ results[2].count = 0

(***************************************************************************)
(* C8: once setup has succeeded, whatever the file system, the reader and  *)
(* the store answer, the run reaches the summary, and the summary holds    *)
(* one line per configured table, in the order of the mapping, with the    *)
(* count recorded for it.                                                  *)
(***************************************************************************)
SummaryListsEveryTable ==
  /\ Len(summary) = Len(config)
  /\ \A k \in 1..Len(config) :
       /\ summary[k].table = config[k].table
       /\ summary[k].count = results[k].count
       /\ summary[k].count >= 0
       /\ summary[k].mark = (summary[k].count > 0)

C8_RunReachesSummary ==
  (pc = "loop") ~> (pc = "done" /\ SummaryListsEveryTable)

\* A summary with a skipped table, an imported one, and one whose inserts
\* all failed before an exception ended its file.
C8_Witness ==
  /\ pc = "done"
  /\ SummaryListsEveryTable
  /\ summary[1].count = 0
  /\ summary[2].count > 0
  /\ summary[Len(config)].count = 0
  /\ outcome = "error" /\ Len(calls) > 0

(***************************************************************************)
(* C9: in the three-table scenario, table B is submitted as exactly three  *)
(* bulk batches of 1000, 1000 and 500 records, and the summary is A = 0,   *)
(* B = 2500, C = 0, total = 2500.                                          *)
(***************************************************************************)
C9_ThreeTableScenario ==
  /\ (seen.table = "B" /\ outcome = "completed") =>
       /\ Len(calls) = 3
       /\ \A k \in 1..3 :
            /\ calls[k].kind = "bulk" /\ calls[k].ok /\ calls[k].table = "B"
            /\ calls[k].from = 1000 * (k - 1) + 1
       /\ << calls[1].len, calls[2].len, calls[3].len >> = << 1000, 1000, 500 >>
  /\ pc = "done" =>
       /\ summary = << [table |-> "A", count |-> 0, mark |-> FALSE],
                       [table |-> "B", count |-> 2500, mark |-> TRUE],
                       [table |-> "C", count |-> 0, mark |-> FALSE] >>
       /\ grand_total = 2500

\* The summary is reached after C's file of more than a batch of rows had
\* every bulk and every individual insert fail.
C9_Witness ==
  /\ pc = "done"
  /\ grand_total = 2500
  /\ seen.table = "C"
  /\ nrows > BATCH_SIZE
  /\ Len(calls) = nrows + 2
  /\ \A k \in 1..Len(calls) : ~calls[k].ok

(***************************************************************************)
(* C10: a setup error ends the process with status 1 before any file is    *)
(* resolved or read and before any insert.                                 *)
(***************************************************************************)
SetupErrorIsFatal ==
  SetupFailed =>
    /\ pc = "exit" /\ exit_status = 1
    /\ stop_cause \in {"credentials", "client"}
    /\ seen.table = "" /\ csv_file = "None"
    /\ calls = <<>> /\ results = <<>>

C11_FileExceptionIsCaught ==
  /\ pc = "exit" => stop_cause \in {"credentials", "client", "interrupt"}
  /\ outcome = "error" =>
       /\ DictHas(results, seen.table)
       /\ DictGet(results, seen.table) = total_rows
       /\ tbl = TableIndex(seen.table) + 1
       /\ pc \in {"loop", "done"} \/ Interrupted

\* The second chunk of the first table's file raised after rows of the first
\* chunk were inserted; the loop stands before the second table.
C11_Witness ==
  /\ outcome = "error"
  /\ chunk_num = 1 /\ row_pos < nrows
  /\ total_rows > 0
  /\ results = << [table |-> config[1].table, count |-> total_rows] >>
  /\ pc = "loop" /\ tbl = 2

(***************************************************************************)
(* C12: tables are handled one at a time in the order of the mapping, each *)
(* once; the insert calls of a table go through its file from the first    *)
(* row to the last in order, a failed batch being followed by its records  *)
(* one by one; never more than one insert request is waiting for its       *)
(* answer; and the running count of a table never decreases.               *)
(***************************************************************************)
TablesInOrder ==
  /\ Len(results) = tbl - 1
  /\ \A k \in 1..Len(results) : results[k].table = config[k].table
  /\ seen.table # "" =>
       seen.table = config[IF outcome = "none" THEN tbl ELSE tbl - 1].table

CallsInFileOrder ==
  /\ calls # <<>> => (calls[1].kind = "bulk" /\ calls[1].from = 1)
  /\ \A k \in 1..Len(calls) :
       /\ calls[k].table = seen.table
       /\ calls[k].from + calls[k].len - 1 <= row_pos
       /\ k < Len(calls) =>
            IF FailedBulk(k)
            THEN calls[k + 1].kind = "row" /\ calls[k + 1].from = calls[k].from
            ELSE IF calls[k].kind = "bulk"
            THEN /\ calls[k + 1].kind = "bulk"
                 /\ calls[k + 1].from = calls[k].from + calls[k].len
            ELSE calls[k + 1].from = calls[k].from + 1

OneInsertAtATime ==
  /\ Len(pending) <= 1
  /\ pc \in {"batch", "rows"} => Len(pending) = 1
  /\ pc \in {"start", "loop", "import", "read", "done"} => pending = <<>>
  /\ \A k \in 1..Len(pending) : pending[k].table = seen.table

CountNeverDecreases ==
  /\ total_rows >= 0
  /\ \A k \in 1..Len(calls) :
       /\ TotalBefore(k) <= calls[k].total
       /\ k = Len(calls) => calls[k].total = total_rows

C12_StrictlySequential ==
  /\ TablesInOrder
  /\ CallsInFileOrder
  /\ OneInsertAtATime
  /\ CountNeverDecreases

\* The second table, after the first imported rows: the first batch of its
\* file failed and went record by record, and the program waits for the
\* answer to the first batch of the second chunk.
C12_Witness ==
  /\ tbl = 2 /\ results[1].count > 0
  /\ pc = "batch" /\ chunk_num = 2
  /\ FailedBulk(1) /\ calls[1].len = 2
  /\ pending = << [table |-> config[2].table, kind |-> "bulk",
                   from |-> chunk_size + 1, len |-> 1] >>

(***************************************************************************)
(* C13: whenever a batch has been handled, by its bulk insert or by the    *)
(* per-row fallback, the line printed last reports the running total of    *)
(* the table, which is total_rows.                                         *)
(***************************************************************************)
BatchHandled == calls # <<>> /\ pc \in {"batch", "read"}

C13_TotalReportedAfterEachBatch ==
  BatchHandled =>
    /\ printed # <<>>
    /\ printed[Len(printed)].kind = "batch"
    /\ printed[Len(printed)].total = total_rows

(***************************************************************************)
(* C14: a record is submitted at most twice, once in the bulk insert of    *)
(* its batch and at most once alone.  It is submitted alone only when the  *)
(* bulk insert of its batch failed, and then exactly once, whatever the    *)
(* individual insert answered; a record of a batch whose bulk insert       *)
(* succeeded is submitted exactly once.                                    *)
(***************************************************************************)
CarriesRow(c, r) == c.from <= r /\ r < c.from + c.len

\* The calls of the given kind that carried row r of the file.
Submissions(kind, r) ==
  { k \in 1..Len(calls) : calls[k].kind = kind /\ CarriesRow(calls[k], r) }

C14_SingleRetryPerRecord ==
  \A r \in 1..nrows :
    /\ Cardinality(Submissions("bulk", r)) <= 1
    /\ Cardinality(Submissions("row", r)) <= 1
    /\ \A k \in Submissions("bulk", r) :
         /\ calls[k].ok => Submissions("row", r) = {}
         /\ (FailedBulk(k) /\ FallbackComplete(k)) =>
              Cardinality(Submissions("row", r)) = 1
    /\ Submissions("row", r) # {} =>
         \E k \in Submissions("bulk", r) : FailedBulk(k)
    /\ (outcome = "completed" /\ has_columns) =>
         Cardinality(Submissions("bulk", r)) = 1

\* A completed file whose first batch of two failed, whose first record was
\* rejected alone and the second accepted, and whose third row went in a
\* successful bulk insert.
C14_Witness ==
  /\ outcome = "completed" /\ nrows >= 3
  /\ Submissions("bulk", 1) = {1} /\ Submissions("row", 1) = {2}
  /\ Submissions("row", 2) = {3}
  /\ ~calls[1].ok /\ ~calls[2].ok /\ calls[3].ok
  /\ Submissions("bulk", 3) = {4} /\ calls[4].ok
  /\ Submissions("row", 3) = {}

(***************************************************************************)
(* C15: when the store fails bulk inserts atomically, the count of every   *)
(* handled table is the number of records the store persisted for it, no   *)
(* source row is persisted twice, and the summary reports those counts     *)
(* for every table; while a file is imported, total_rows is the number of  *)
(* records persisted so far.                                               *)
(***************************************************************************)
NoRowTwice(rows) == Cardinality(Range(rows)) = Len(rows)

CountsArePersistedRows ==
  /\ Len(persisted) = Len(results)
  /\ \A k \in 1..Len(persisted) :
       /\ persisted[k].table = results[k].table
       /\ persisted[k].rows = results[k].count
       /\ persisted[k].distinct = persisted[k].rows
  /\ NoRowTwice(stored)
  /\ outcome = "none" => Len(stored) = total_rows
  /\ pc = "done" =>
       /\ Len(persisted) = Len(config)
       /\ \A k \in 1..Len(config) :
            /\ summary[k].table = persisted[k].table
            /\ summary[k].count = persisted[k].rows

C15_CountIsPersistedRows == atomic => CountsArePersistedRows

\* The summary of a run against an atomic store, whose last table had a
\* batch of two fail: its first record was then rejected alone, the second
\* persisted, and the table's count is what the store holds of it.
C15_Witness ==
  /\ atomic /\ pc = "done"
  /\ Len(calls) >= 3
  /\ FailedBulk(1) /\ calls[1].len = 2
  /\ ~calls[2].ok /\ calls[3].ok
  /\ persisted[Len(config)].rows = total_rows
  /\ total_rows >= 2
  /\ persisted[1].rows > 0

(***************************************************************************)
(* C16: every count in results is a non-negative integer, and the TOTAL of *)
(* the summary is the sum, over the tables of the mapping, of the counts   *)
(* recorded for them.                                                      *)
(***************************************************************************)
RECURSIVE SumOverTables(_)
SumOverTables(n) ==
  IF n = 0 THEN 0
  ELSE DictGet(results, config[n].table) + SumOverTables(n - 1)

C16_TotalIsSumOfCounts ==
  /\ \A k \in 1..Len(results) : results[k].count \in Nat
  /\ pc = "done" =>
       /\ \A k \in 1..Len(config) : DictHas(results, config[k].table)
       /\ grand_total = SumOverTables(Len(config))
       /\ success = (grand_total > 0)
  /\ pc # "done" => grand_total = -1

\* A summary over a table with no row imported and two tables with different
\* positive counts.
C16_Witness ==
  /\ pc = "done"
  /\ Len(results) = MaxTables
  /\ results[1].count = 0
  /\ results[2].count > results[3].count
  /\ results[3].count > 0
  /\ grand_total = results[2].count + results[3].count

(***************************************************************************)
(* C17: clean_dataframe applied to the frame it returned does not raise    *)
(* and returns that frame again: the same columns, and in every record the *)
(* same keys with the same values, None where None was.                    *)
(***************************************************************************)
C17_CleaningIsIdempotent ==
  stage = "recleaned" =>
    /\ ~recleaned.raised
    /\ recleaned.df.columns = cleaned.df.columns
    /\ to_dict_records(recleaned.df) = records
    /\ recleaned.df = cleaned.df

\* A chunk with a numeric column holding a missing value and an infinity
\* and a text column holding a missing value, cleaned twice.
C17_Witness ==
  /\ stage = "recleaned"
  /\ raw.header = << "name", "extra", "teamID" >>
  /\ chunk.col["teamID"].values = << NaN, FloatVal("inf") >>
  /\ chunk.col["name"].values = << StrVal("abc"), NaN >>
  /\ records[1]["teamID"] = None /\ records[2]["name"] = None
  /\ to_dict_records(recleaned.df) = records

(***************************************************************************)
(* C18: the batches of a chunk are consecutive slices of its records, in   *)
(* chunk order: batch k starts right after k - 1 batches of batch_size     *)
(* records, holds at least one and at most batch_size records, none beyond *)
(* the end of the chunk, and fewer than batch_size only when it ends the   *)
(* chunk; when the chunk is done its batches hold all its records.         *)
(***************************************************************************)
InChunk(c) == c.from > chunk_start

\* The batches submitted so far of the chunk being handled.
ChunkBatches == SelectSeq(BulkCalls, InChunk)

C18_BatchesPartitionTheChunk ==
  /\ \A k \in 1..Len(ChunkBatches) :
       LET b == ChunkBatches[k] IN
         /\ b.from = chunk_start + 1 + (k - 1) * batch_size
         /\ b.len >= 1 /\ b.len <= batch_size
         /\ b.from + b.len - 1 <= chunk_start + chunk_len
         /\ b.len < batch_size => b.from + b.len - 1 = chunk_start + chunk_len
  /\ (pc = "read" /\ chunk_num > 0) => SumLen(ChunkBatches) = chunk_len
  /\ pc \in {"batch", "rows"} => SumLen(ChunkBatches) - i \in {0, BatchLen}

\* The first chunk of a file of two chunks: its three records were cut
\* with batch_size 2 into a batch of two and a batch of one.
C18_Witness ==
  /\ pc = "read" /\ chunk_num = 1 /\ row_pos < nrows
  /\ batch_size = 2 /\ chunk_len = 3
  /\ Len(ChunkBatches) = 2
  /\ ChunkBatches[1].from = 1 /\ ChunkBatches[1].len = 2
  /\ ChunkBatches[2].from = 3 /\ ChunkBatches[2].len = 1

(***************************************************************************)
(* C19, as stated: the frame clean_dataframe returns holds no NaN and no   *)
(* infinity, and wherever the chunk held one the frame holds None.         *)
(***************************************************************************)
Cleaned == stage \in {"cleaned", "records", "cleaned_records", "submitted",
                      "recleaned"}

\* The column as lines 276-290 leave it, before the final pass.
Coerced(c) == ConvertColumn(ReplaceStr(ReplaceStr(chunk.col[c], "NA"), ""))

C19_CleanedChunkHasNoNonFinite ==
  Cleaned =>
    \A c \in Range(cleaned.df.columns) :
      \A r \in 1..cleaned.df.n :
        /\ ~IsNonFinite(cleaned.df.col[c].values[r])
        /\ IsNonFinite(chunk.col[c].values[r]) =>
             cleaned.df.col[c].values[r] = None

(***************************************************************************)
(* C19, amended: the final pass of clean_dataframe acts on the columns as  *)
(* numeric coercion left them and leaves no NaN: every NaN of the chunk    *)
(* and every NaN coercion produced is None in the frame returned.  An      *)
(* infinity is returned as it was read; it is the loop over the records    *)
(* that turns it into None.                                                *)
(***************************************************************************)
C19_FinalPassNullsNaNOnly ==
  Cleaned =>
    \A c \in Range(cleaned.df.columns) :
      \A r \in 1..cleaned.df.n :
        LET before == chunk.col[c].values[r]
            after == cleaned.df.col[c].values[r]
        IN /\ after # NaN
           /\ (before = NaN \/ Coerced(c).values[r] = NaN) => after = None
           /\ (IsNonFinite(before) /\ before # NaN) => after = before
           /\ (stage \in {"cleaned_records", "submitted", "recleaned"}
                /\ IsNonFinite(before)) => cleaned_records[r][c] = None

\* A column of a true value and a missing one, which coercion turns into
\* 1.0 and NaN, beside a column holding an infinity: the frame returned
\* holds None for the NaN and still the infinity, the record holds None
\* for both.
C19_Witness ==
  /\ stage = "cleaned_records"
  /\ raw.header = << "name", "extra", "teamID" >>
  /\ chunk.col["teamID"].values = << BoolVal("True"), NaN >>
  /\ Coerced("teamID").values = << FloatVal("1.0"), NaN >>
  /\ cleaned.df.col["teamID"].values = << FloatVal("1.0"), None >>
  /\ chunk.col["name"].values = << FloatVal("-inf"), FloatVal("1.5") >>
  /\ cleaned.df.col["name"].values[1] = FloatVal("-inf")
  /\ cleaned_records[1]["name"] = None
  /\ cleaned_records[2]["teamID"] = None

(***************************************************************************)
(* C20: clean_dataframe turns an object column of the chunk into numbers   *)
(* exactly when every value of it that is not null parses as a number (and *)
(* there is one); otherwise it returns every str of the column as it was   *)
(* read.  The condition is one on the values of the chunk alone.           *)
(***************************************************************************)
Parses(column) ==
  /\ \A r \in 1..Len(column.values) :
       IsNull(column.values[r]) \/ CanParse(column.values[r])
  /\ \E r \in 1..Len(column.values) : ~IsNull(column.values[r])

C20_NumericExactlyWhenAllParse ==
  Cleaned =>
    \A c \in Range(cleaned.df.columns) :
      chunk.col[c].dtype = "object" =>
        \A r \in 1..cleaned.df.n :
          LET before == chunk.col[c].values[r]
              after == cleaned.df.col[c].values[r]
          IN IF Parses(chunk.col[c])
             THEN /\ Kind(cleaned.df.col[c]) = "numeric"
                  /\ after = IF IsNull(before) THEN None
                             ELSE AsFloat(AsNumber(before))
             ELSE /\ Kind(cleaned.df.col[c]) \in {"text", "empty"}
                  /\ after = IF IsNull(before) THEN None ELSE before

\* The first chunk of the file held numbers in column teamID and was given
\* back with numbers; the next chunk of the same file holds a word there
\* and is given back with the column as text.
C20_Witness ==
  /\ stage = "submitted"
  /\ raw.header = << "teamID", "extra" >>
  /\ earlier.seen
  /\ earlier.kind["teamID"] = "numeric"
  /\ chunk.col["teamID"].dtype = "object"
  /\ chunk.col["teamID"].values = << StrVal("abc") >>
  /\ Kind(cleaned.df.col["teamID"]) = "text"
  /\ submitted[1]["teamID"] = StrVal("abc")

(***************************************************************************)
(* C21, as stated: a value of the chunk that numeric coercion cannot parse *)
(* is None in the submitted record.                                        *)
(***************************************************************************)
FailsCoercion(x) == ~IsNull(x) /\ ~CanParse(x)

C21_UnparseableSubmittedAsNull ==
  \A r \in 1..Len(submitted) :
    \A key \in DOMAIN submitted[r] :
      FailsCoercion(chunk.col[key].values[r]) => submitted[r][key] = None

(***************************************************************************)
(* C21, amended: a submitted value is None exactly where the chunk held a  *)
(* missing value or an infinity; a str that numeric coercion cannot parse  *)
(* is submitted as the str it was read as.                                 *)
(***************************************************************************)
C21_NullIsMissingOrNonFinite ==
  \A r \in 1..Len(submitted) :
    \A key \in DOMAIN submitted[r] :
      LET before == chunk.col[key].values[r] IN
        /\ submitted[r][key] = None <=> IsNonFinite(before)
        /\ FailsCoercion(before) => submitted[r][key] = before

\* A column read as a word and a missing value: the word was submitted as
\* it was read, the missing value as None.
C21_Witness ==
  /\ stage = "submitted"
  /\ raw.header = << "teamID", "extra" >>
  /\ Len(raw.rows) = 2
  /\ raw.rows[1]["teamID"] = "abc" /\ raw.rows[2]["teamID"] = ""
  /\ chunk.col["teamID"].values = << StrVal("abc"), NaN >>
  /\ submitted[1]["teamID"] = StrVal("abc")
  /\ submitted[2]["teamID"] = None

(***************************************************************************)
(* C22: the chunks of a file are consecutive runs of at most chunk_size    *)
(* rows, every chunk before the current one a full one; no batch holds     *)
(* rows of two chunks; once a chunk is done, the bulk inserts issued for   *)
(* the file number the sum over its chunks so far of                       *)
(* ceil(records of the chunk / batch_size).                                *)
(***************************************************************************)
Ceil(n) == (n + batch_size - 1) \div batch_size

\* The chunk a row of the file is read in, counted from 0.
ChunkOf(row) == (row - 1) \div chunk_size

ChunkDone == pc = "read" /\ chunk_num > 0

ChunkedReading ==
  /\ chunk_len <= chunk_size
  /\ chunk_num > 0 => chunk_start = (chunk_num - 1) * chunk_size
  /\ \A k \in 1..Len(BulkCalls) :
       ChunkOf(BulkCalls[k].from) =
         ChunkOf(BulkCalls[k].from + BulkCalls[k].len - 1)
  /\ ChunkDone =>
       Len(BulkCalls) =
         (chunk_num - 1) * Ceil(RecordsOf(chunk_size)) + Ceil(chunk_len)

\* C22, as stated: besides, when chunk_size is no multiple of batch_size
\* every chunk ends with a batch of fewer than batch_size records.
C22_EachChunkEndsShort ==
  /\ ChunkedReading
  /\ (ChunkDone /\ chunk_len > 0 /\ chunk_size % batch_size # 0) =>
       ChunkBatches[Len(ChunkBatches)].len < batch_size

\* C22, amended: besides, when chunk_size is no multiple of batch_size
\* every full chunk ends with a batch of chunk_size % batch_size records;
\* the last chunk of the file ends with a full batch when its length is a
\* multiple of batch_size.
C22_EachFullChunkEndsShort ==
  /\ ChunkedReading
  /\ (ChunkDone /\ chunk_len > 0) =>
       ChunkBatches[Len(ChunkBatches)].len =
         IF chunk_len % batch_size = 0 THEN batch_size
         ELSE chunk_len % batch_size
  /\ (ChunkDone /\ chunk_len = chunk_size /\ chunk_size % batch_size # 0) =>
       ChunkBatches[Len(ChunkBatches)].len < batch_size

\* A file of four rows read to its end in chunks of three, batches of two:
\* three bulk inserts, of two, one and one records, where two batches
\* would hold the four rows.
C22_Witness ==
  /\ outcome = "completed" /\ pc = "loop"
  /\ chunk_size = 3 /\ batch_size = 2
  /\ nrows = 4 /\ chunk_num = 2
  /\ Len(BulkCalls) = 3
  /\ BulkCalls[1].len = 2 /\ BulkCalls[2].len = 1 /\ BulkCalls[3].len = 1
  /\ BulkCalls[3].from = 4

(***************************************************************************)
(* C23: every bulk insert, answered or still waited for, carries at least  *)
(* one and at most batch_size records; for a file without data rows no     *)
(* insert is issued and the count is 0.                                    *)
(***************************************************************************)
FileOpened == pc \in {"read", "batch", "rows"} \/ outcome \in {"completed", "error"}

C23_NoEmptyBatch ==
  /\ \A k \in 1..Len(BulkCalls) :
       BulkCalls[k].len >= 1 /\ BulkCalls[k].len <= batch_size
  /\ \A k \in 1..Len(pending) :
       pending[k].len >= 1 /\ pending[k].len <= batch_size
  /\ (FileOpened /\ nrows = 0) =>
       /\ calls = <<>> /\ pending = <<>> /\ total_rows = 0
       /\ ImportEnded => DictGet(results, seen.table) = 0

\* A file that holds its header alone was read to its end: one empty
\* chunk, no insert call, and 0 in results; the table before it was
\* imported with rows.
C23_Witness ==
  /\ outcome = "completed" /\ pc = "loop"
  /\ tbl = 3
  /\ nrows = 0 /\ chunk_num = 1 /\ chunk_len = 0
  /\ calls = <<>>
  /\ results[1].count > 0
  /\ DictGet(results, seen.table) = 0

(***************************************************************************)
(* C24: when the bulk insert of a batch of n records failed and each of    *)
(* the n individual inserts that followed succeeded, total_rows grew by n  *)
(* over the batch; a file all of whose batches went that way is counted    *)
(* with all its rows.                                                      *)
(***************************************************************************)
Recovered(k) == FailedBulk(k) /\ FallbackComplete(k) /\ RowFailures(k) = 0

C24_RecoveredBatchCountsInFull ==
  /\ \A k \in 1..Len(calls) :
       Recovered(k) =>
         calls[k + calls[k].len].total - TotalBefore(k) = calls[k].len
  /\ (outcome = "completed" /\ has_columns
        /\ \A k \in 1..Len(calls) : FailedBulk(k) => Recovered(k)) =>
       DictGet(results, seen.table) = nrows

\* A file of three rows: the bulk insert of its first batch, of two
\* records, failed, both records were then inserted one by one, and the
\* file completed with a count of three.
C24_Witness ==
  /\ outcome = "completed" /\ pc = "loop"
  /\ nrows = 3 /\ batch_size = 2
  /\ Len(calls) = 4
  /\ Recovered(1) /\ calls[1].len = 2
  /\ calls[3].total = 2
  /\ calls[4].kind = "bulk" /\ calls[4].ok
  /\ DictGet(results, seen.table) = 3

(***************************************************************************)
(* C25: when an exception ended a file, the count stored for the table is  *)
(* the rows inserted before it; no insert is waited for and no row beyond  *)
(* the chunks read was attempted; the store holds that many rows of the    *)
(* table, and the summary lists every table with the rows the store holds  *)
(* of it.                                                                  *)
(***************************************************************************)
LastTotal == IF calls = <<>> THEN 0 ELSE calls[Len(calls)].total

C25_PartialCountSurvivesException ==
  /\ outcome = "error" =>
       /\ pc \in {"loop", "done", "exit"}
       /\ DictGet(results, seen.table) = LastTotal
       /\ LastTotal = total_rows
       /\ pending = <<>>
       /\ Attempted <= row_pos
       /\ persisted[Len(persisted)].table = seen.table
       /\ persisted[Len(persisted)].rows = total_rows
  /\ Len(persisted) = Len(results)
  /\ \A k \in 1..Len(results) : persisted[k].rows = results[k].count
  /\ \A k \in 1..Len(summary) : summary[k].count = persisted[k].rows

\* The last table's file holds four rows: its first chunk, of three, was
\* inserted, reading the second chunk raised, and the summary lists the
\* table with 3, the rows the store holds.
C25_Witness ==
  /\ pc = "done" /\ outcome = "error"
  /\ chunk_size = 3
  /\ nrows = 4 /\ row_pos = 3 /\ chunk_num = 1
  /\ Attempted = 3 /\ total_rows = 3
  /\ summary[Len(config)].table = seen.table
  /\ summary[Len(config)].count = 3
  /\ persisted[Len(config)].rows = 3

(***************************************************************************)
(* C26: every insert call, answered or waited for, is addressed to the     *)
(* table being processed, and so is every record the store persists        *)
(* meanwhile; what the store holds for a table handled earlier never       *)
(* changes; for a table skipped because its file is missing no insert is   *)
(* issued and the store holds nothing.                                     *)
(***************************************************************************)
Importing == pc \in {"import", "read", "batch", "rows"}

InsertsGoToTheTable ==
  /\ Importing => seen.table = config[tbl].table
  /\ \A k \in 1..Len(calls) : calls[k].table = seen.table
  /\ \A k \in 1..Len(pending) : pending[k].table = seen.table
  /\ \A k \in 1..Len(stored) : stored[k].table = seen.table
  /\ stored # <<>> => Importing \/ Interrupted
  /\ \A k \in 1..Len(persisted) :
       /\ persisted[k].table = config[k].table
       /\ persisted[k].others = 0
  /\ outcome \in {"skipped", "not_found"} =>
       /\ calls = <<>> /\ pending = <<>>
       /\ persisted[Len(persisted)].table = seen.table
       /\ persisted[Len(persisted)].rows = 0

OtherTablesUntouched ==
  /\ Len(persisted') >= Len(persisted)
  /\ \A k \in 1..Len(persisted) : persisted'[k] = persisted[k]

C26_InsertsAddressTheirTable ==
  []InsertsGoToTheTable /\ [][OtherTablesUntouched]_vars

\* The first table was imported with rows, the second is skipped for its
\* missing file and the third is being imported: its first batch went to
\* the third table, and the store holds nothing for the second.
C26_Witness ==
  /\ tbl = 3 /\ pc = "read"
  /\ Len(calls) = 1 /\ calls[1].ok
  /\ calls[1].table = config[3].table
  /\ stored # <<>> /\ stored[1].table = config[3].table
  /\ persisted[1].rows > 0
  /\ persisted[2].rows = 0 /\ results[2].count = 0

(***************************************************************************)
(* C27: when the file find_csv_file returned is gone at the second         *)
(* existence check, or opening or reading it raises, the table is recorded *)
(* with 0 or with the rows counted so far, the process has not ended with  *)
(* an exception, and the run goes on to the summary, which lists every     *)
(* table.                                                                  *)
(***************************************************************************)
Removed == csv_file # "None" /\ outcome \in {"not_found", "error"}

RemovedIsHandled ==
  /\ pc \in {"loop", "done"}
  /\ stop_cause = "none"
  /\ DictGet(results, seen.table) = total_rows
  /\ total_rows = LastTotal
  /\ total_rows <= row_pos
  /\ (outcome = "not_found" \/ chunk_num = 0) =>
       (total_rows = 0 /\ calls = <<>>)
  /\ tbl = TableIndex(seen.table) + 1

AllTablesHandled ==
  /\ pc = "done" /\ exit_status = 0
  /\ Len(results) = Len(config)
  /\ SummaryListsEveryTable

C27_RemovedFileDoesNotStopTheRun ==
  /\ [](Removed => RemovedIsHandled)
  /\ Removed ~> AllTablesHandled

\* The primary file of the second table existed when find_csv_file looked
\* and was gone when import_csv_to_table did: the table is recorded with 0
\* after the first table was imported with rows, and the loop stands
\* before the third table.
C27_Witness ==
  /\ outcome = "not_found"
  /\ seen.table = config[2].table /\ seen.primary
  /\ csv_file = "primary"
  /\ pc = "loop" /\ tbl = 3
  /\ results[1].count > 0
  /\ results[2].count = 0

(***************************************************************************)
(* C28, as stated: a run that passed setup never ends with a non-zero      *)
(* status, and when main has returned the run is reported as successful    *)
(* exactly when the total is greater than zero.                            *)
(***************************************************************************)
PassedSetup == env.read /\ ~SetupFailed

SuccessIffRowsImported ==
  pc = "done" =>
    /\ exit_status = 0
    /\ success <=> grand_total > 0
    /\ success <=> \E k \in 1..Len(results) : results[k].count > 0

C28_PassedSetupNeverFails ==
  /\ PassedSetup => exit_status # 1
  /\ SuccessIffRowsImported

(***************************************************************************)
(* C28, amended: a run that passed setup ends with a non-zero status only  *)
(* when the user interrupts it; when main has returned, the status is 0    *)
(* whatever the counts are, and the run is reported as successful exactly  *)
(* when the total is greater than zero, that is when some table imported a *)
(* row.                                                                    *)
(***************************************************************************)
C28_OnlyInterruptFailsAfterSetup ==
  /\ (PassedSetup /\ exit_status = 1) => Interrupted
  /\ (PassedSetup /\ pc \in {"done", "exit"} /\ ~Interrupted) =>
       (pc = "done" /\ exit_status = 0)
  /\ SuccessIffRowsImported

\* main returned with status 0 after two tables imported nothing and the
\* third a single row: the run is reported as successful.
C28_Witness ==
  /\ pc = "done" /\ exit_status = 0
  /\ results[1].count = 0 /\ results[2].count = 0
  /\ results[3].count = 1
  /\ grand_total = 1 /\ success

(***************************************************************************)
(* C29: two runs of the database query for the same (query, params) are at *)
(* least TTL seconds apart; a call that did not run it returned what the   *)
(* run of its input less than TTL seconds before had returned, and a call  *)
(* within TTL seconds of such a run never ran the query.                   *)
(***************************************************************************)
AtMostOncePerWindow ==
  \A a \in 1..Len(db_runs) : \A b \in 1..Len(db_runs) :
    (a < b /\ db_runs[a].input = db_runs[b].input) =>
      db_runs[b].at >= db_runs[a].at + TTL

Served(call) ==
  \E k \in 1..Len(db_runs) :
    /\ db_runs[k].input = call.input
    /\ db_runs[k].at <= call.at /\ call.at < db_runs[k].at + TTL
    /\ db_runs[k].result = call.result

C29_QueryRunsOncePerWindow ==
  /\ AtMostOncePerWindow
  /\ Len(db_runs) <= calls_made
  /\ last_call # <<>> =>
       /\ (~last_call.ran /\ last_call.result # Stopped) => Served(last_call)
       /\ last_call.ran =>
            /\ db_runs[Len(db_runs)].input = last_call.input
            /\ db_runs[Len(db_runs)].at = last_call.at
            /\ \A k \in 1..(Len(db_runs) - 1) :
                 db_runs[k].input = last_call.input =>
                   db_runs[k].at + TTL <= last_call.at

\* The query ran once; the database was written; the same input was asked
\* for again TTL - 1 seconds after the run and the call returned the
\* stored rows, those of before the write, without a second run.
C29_Witness ==
  /\ Len(db_runs) = 1 /\ calls_made = 2
  /\ db = 1
  /\ last_call.input = << "standings", "(1, 2023)" >>
  /\ db_runs[1].input = last_call.input
  /\ last_call.at = db_runs[1].at + TTL - 1
  /\ ~last_call.ran
  /\ last_call.result = db_runs[1].result
  /\ last_call.result.version = 0

====
